---- MODULE Spec2Model ----
(***************************************************************************)
(* iodine server core (src/src/server.c): query memory (qmem), DNS answer  *)
(* cache, downstream responses, the tunnel command handler and the event   *)
(* loop of server_tunnel.                                                  *)
(*                                                                         *)
(* Time is counted in whole units (one unit stands for one second of the   *)
(* struct timeval arithmetic).  A DNS query is [id, type, name, from]; the *)
(* query name is kept decoded, as the record of the command character and  *)
(* the fields the handler unpacks from it, so two names are equal exactly  *)
(* when the same bytes were sent.                                          *)
(***************************************************************************)
EXTENDS Integers, Sequences, FiniteSets, TLC

(***************************************************************************)
(* Bounds of the model.                                                    *)
(***************************************************************************)
\* size of the per-user query ring (user.h QMEM_LEN), scaled down
QMEM_LEN == 3
\* size of the per-user answer cache (user.h DNSCACHE_LEN), scaled down
DNSCACHE_LEN == 2
\* number of user slots (created_users)
USERS == 1
\* downstream window size of a user's outgoing buffer
WINDOWSIZE == 1
\* capacity (fragments) of a user's outgoing buffer
OUTLEN == 2
\* the clock stops advancing here
MaxTime == 2
\* a user with no packet for this long is no longer active (user.c: 60 s)
IDLE == 2
\* largest DNS id and collision counter a client sends
MaxId == 2
MaxCmc == 0
\* max_idle_time of the runs that shut down when idle
MaxIdle == 1

(***************************************************************************)
(* Program constants.                                                      *)
(***************************************************************************)
DOWNSTREAM_HDR == 3
DOWNSTREAM_PING_HDR == 7
MAX_FRAGSIZE == 4096
\* soonest.tv_sec = 10
DefaultWait == 10
\* width of struct query's id (unsigned short)
IdMod == 65536
\* maxfraglen is unsigned: a negative result wraps to just below 2^32.  TLC's
\* integers end at 2^31 - 1, which stands for 2^32 here; every length in
\* the program is far below both.
UWrapBase == 2147483647
\* version.h
PROTOCOL_VERSION == 1282

Users == 0 .. (USERS - 1)
Ids == 0 .. MaxId
Cmcs == 0 .. MaxCmc
Types == {"NULL", "TXT"}
Addrs == {1}
ToUnsigned(x) == IF x < 0 THEN x + UWrapBase ELSE x
Min(a, b) == IF a < b THEN a ELSE b
Max(a, b) == IF a > b THEN a ELSE b

VARIABLES
  users,      \* the user table: users[userid]
  now,        \* wall clock (gettimeofday / time)
  check_ip,   \* global option
  client,     \* the kind of peer this run talks to
  pc,         \* position of server_tunnel in its loop
  tv,         \* the wait, touser and sendq returned by the last qmem_max_wait
  out,        \* what the last step sent: DNS answers and tun writes, in order
  saved,      \* history: per user, the last DNSCACHE_LEN answers handed to
              \* save_to_dnscache since the user's Version handshake
  raw_addr,   \* history: per user, the source address of the raw login
              \* granted since the user's Version handshake (0: none)
  running,    \* the flag of server_tunnel's while loop
  last_action,    \* server_tunnel's local: latest activity seen by the idle check
  max_idle_time   \* server_tunnel's parameter (0: never shut down when idle)

vars ==
  <<users, now, check_ip, client, pc, tv, out, saved, raw_addr, running,
    last_action, max_idle_time>>

(***************************************************************************)
(* Query names.  One record shape for all commands; a, b, c are the        *)
(* command's parameters:                                                   *)
(*   V: a = the version in the first four payload bytes, b = the number of *)
(*      payload bytes (read)                                               *)
(*   L: a = the seed the client hashed its password with (0: it hashed a   *)
(*      wrong password), b = the number of payload bytes (read)            *)
(*   O: a = index in OptStrings of the characters between the option count *)
(*      and the three characters that end the name, b = the number the     *)
(*      option-count character denotes (in[2] - '0')                       *)
(*   N: a = fragsize                                                       *)
(*   I: no parameters                                                      *)
(*   S: a = codec id                                                       *)
(*   R: a = requested fragment size                                        *)
(*   P: a = respond flag, b = timeout to set (-1: update flag clear),      *)
(*      c = dn_ack (-1: ack flag clear)                                    *)
(*   D: a = seqID, b = compressed flag, c = ack_other,                     *)
(*   pkt: the IP packet a D fragment completes (NoPkt: none yet)           *)
(*   enc: the encoder the client used for the part after the header        *)
(* A packet with the raw header is kept in the same shape, with type "RAW" *)
(* and cmd "rawlogin" (a = the digest sent, named as for L, b = the number *)
(* of bytes after the header), "rawdata" (pkt = the compressed IP packet)  *)
(* or "rawping".                                                           *)
(***************************************************************************)
\* an IP packet: its length, its length once compressed, and the user that
\* owns its destination address (-1: none, the packet is for the tun side;
\* -2: the bytes are no IP packet and no zlib stream)
IpPkt(raw, z, dst) == [raw |-> raw, z |-> z, dst |-> dst]

NoPkt == IpPkt(0, 0, -1)

Name(cmd, uid, cmc, a, b, c, pkt) ==
  [cmd |-> cmd, uid |-> uid, cmc |-> cmc, a |-> a, b |-> b, c |-> c,
   pkt |-> pkt, enc |-> "base32"]

\* the name n with the part after the header encoded by encoder enc
Coded(n, enc) == [n EXCEPT !.enc = enc]

NoName == Name("", 0, 0, 0, 0, 0, NoPkt)

\* an entry of qmem.queries / dnscache_q as left by memset and qmem_init
EmptyQuery(id) == [id |-> id, type |-> "", name |-> NoName, time_recv |-> 0]

\* the part of a struct query that identifies the DNS question
QKey(q) == [id |-> q.id, type |-> q.type, name |-> q.name]

\* Answer payloads.  A text reply ("x", "BADIP", ...) and a downstream
\* data/ping packet share one record shape: txt is "pkt" for a packet, whose
\* header fields follow (ack -1: ack-valid bit clear; len: fragment bytes).
Text(txt) ==
  [txt |-> txt, ping |-> 0, ack |-> -1, len |-> 0, comp |-> 0, imm |-> 0]

Pkt(ping, ack, len, comp, imm) ==
  [txt |-> "pkt", ping |-> ping, ack |-> ack, len |-> len, comp |-> comp,
   imm |-> imm]

\* the nine bytes send_version_response builds: "VACK"/"VNAK"/"VFUL", the
\* 32-bit payload and the userid byte
VersionText(ack, payload, userid) ==
  [txt |-> ack, ping |-> 0, ack |-> -1, len |-> 0, comp |-> 0, imm |-> 0,
   payload |-> payload, userid |-> userid]

\* a DNS answer written by write_dns(fd, q, data, len, downenc)
Answer(q, data, downenc) ==
  [kind |-> "dns", q |-> QKey(q), data |-> data, enc |-> downenc]

\* a packet written by write_tun or sent by send_raw to user `to`
TunWrite(len) ==
  [kind |-> "tun", q |-> QKey(EmptyQuery(0)), data |-> Pkt(0, -1, len, 0, 0),
   enc |-> ""]

\* write_tun of len bytes that are no IP packet
TunWriteJunk(len) ==
  [kind |-> "tun", q |-> QKey(EmptyQuery(0)),
   data |-> [Pkt(0, -1, len, 0, 0) EXCEPT !.txt = "junk"], enc |-> ""]

RawSend(to, data, len, comp) ==
  [kind |-> "raw", q |-> QKey(EmptyQuery(to)),
   data |-> Pkt(0, -1, len, comp, 0), bytes |-> data, enc |-> ""]

\* a login or ping reply sent by send_raw to user `to`; digest is the 16
\* bytes of a login reply, named as for L (0: no payload)
RawReply(to, cmd, digest) ==
  [kind |-> "raw", q |-> QKey(EmptyQuery(to)),
   data |-> [Text(cmd) EXCEPT !.len = digest], enc |-> ""]

\* the bytes the R handler answers with: len bytes, of which the first two
\* are the length and the rest a sequence starting from v
ProbeText(len, v) ==
  [txt |-> "probe", ping |-> 0, ack |-> -1, len |-> len, comp |-> 0,
   imm |-> 0, v |-> v]

\* the reply of the O handler when it passes a negative count to write_dns:
\* bytes from beyond the query
OptsOverrun ==
  [txt |-> "OPTS", ping |-> 0, ack |-> -1, len |-> -1, comp |-> 0,
   imm |-> 0, opts |-> <<"?">>]

\* the reply of the O handler: the option characters it was sent
OptsText(opts) ==
  [txt |-> "OPTS", ping |-> 0, ack |-> -1, len |-> Len(opts), comp |-> 0,
   imm |-> 0, opts |-> opts]

(***************************************************************************)
(* qmem                                                                    *)
(***************************************************************************)
qmem_init ==
  [queries |-> [i \in 0 .. (QMEM_LEN - 1) |-> EmptyQuery((-1) % IdMod)],
   start |-> 0, start_pending |-> 0, end |-> 0, length |-> 0,
   num_pending |-> 0]

\* the slots visited by  for (p = from; p != to; p = (p + 1) % QMEM_LEN)
RingRange(from, to) ==
  {(from + k) % QMEM_LEN : k \in 0 .. (((to - from) % QMEM_LEN) - 1)}

SameQuery(pq, q) == pq.id = q.id /\ pq.type = q.type /\ pq.name = q.name

\* the duplicate scan of qmem_append
QmemIsDup(buf, q) ==
  \E p \in RingRange(buf.start, buf.end) : SameQuery(buf.queries[p], q)

StoreQuery(q, t) ==
  [id |-> q.id, type |-> q.type, name |-> q.name, time_recv |-> t]

\* qmem_append as it would be if a full ring never dropped its oldest entry
\* (start left alone when length == QMEM_LEN)
qmem_append_keepstart(buf, q) ==
  IF QmemIsDup(buf, q)
  THEN [buf |-> buf, ret |-> 0, out |-> <<Answer(q, Text("x"), "T")>>]
  ELSE IF buf.num_pending >= QMEM_LEN
  THEN [buf |-> buf, ret |-> 1, out |-> <<>>]
  ELSE [buf |-> [buf EXCEPT
                  !.length = IF @ < QMEM_LEN THEN @ + 1 ELSE @,
                  !.queries[buf.end] = StoreQuery(q, q.time_recv),
                  !.end = (@ + 1) % QMEM_LEN,
                  !.num_pending = @ + 1],
        ret |-> 1, out |-> <<>>]

\* qmem_append as it would be if it stored the query even when every slot
\* holds a pending query
qmem_append_overwrite(buf, q) ==
  IF QmemIsDup(buf, q)
  THEN [buf |-> buf, ret |-> 0, out |-> <<Answer(q, Text("x"), "T")>>]
  ELSE [buf |-> [buf EXCEPT
                  !.length = IF @ < QMEM_LEN THEN @ + 1 ELSE @,
                  !.start = IF buf.length < QMEM_LEN THEN @
                            ELSE (@ + 1) % QMEM_LEN,
                  !.queries[buf.end] = StoreQuery(q, q.time_recv),
                  !.end = (@ + 1) % QMEM_LEN,
                  !.num_pending = @ + 1],
        ret |-> 1, out |-> <<>>]

\* qmem_append: [buf: the ring afterwards, ret: the return value, out: sent]
qmem_append(buf, q) ==
  IF QmemIsDup(buf, q)
  THEN [buf |-> buf, ret |-> 0, out |-> <<Answer(q, Text("x"), "T")>>]
  ELSE IF buf.num_pending >= QMEM_LEN
  THEN [buf |-> buf, ret |-> 1, out |-> <<>>]
  ELSE [buf |-> [buf EXCEPT
                  !.length = IF @ < QMEM_LEN THEN @ + 1 ELSE @,
                  !.start = IF buf.length < QMEM_LEN THEN @
                            ELSE (@ + 1) % QMEM_LEN,
                  !.queries[buf.end] = StoreQuery(q, q.time_recv),
                  !.end = (@ + 1) % QMEM_LEN,
                  !.num_pending = @ + 1],
        ret |-> 1, out |-> <<>>]

qmem_answered(buf) ==
  IF buf.num_pending = 0 THEN buf
  ELSE [buf EXCEPT
         !.start_pending = (@ + 1) % QMEM_LEN,
         !.num_pending = @ - 1]

(***************************************************************************)
(* Outgoing window (window.c).  frags holds the fragments waiting to be    *)
(* sent, oldest first, each [len, comp]; a fragment handed out by          *)
(* window_get_next_sending_fragment leaves the queue.                      *)
(***************************************************************************)
window_sending(w) == Min(Len(w.frags), w.windowsize)

window_buffer_clear(w) == [w EXCEPT !.frags = <<>>]

RECURSIVE SplitFrags(_, _, _, _)
SplitFrags(data, len, maxfraglen, comp) ==
  IF len <= maxfraglen
  THEN <<[len |-> len, comp |-> comp, data |-> data]>>
  ELSE <<[len |-> maxfraglen, comp |-> comp, data |-> data]>>
         \o SplitFrags(data, len - maxfraglen, maxfraglen, comp)

\* window_add_outgoing_data: the window afterwards (unchanged when the
\* fragments do not fit)
window_add_outgoing_data(w, data, len, comp) ==
  LET n == ((len - 1) \div w.maxfraglen) + 1
  IN IF len = 0 \/ n > OUTLEN - Len(w.frags) THEN w
     ELSE [w EXCEPT
            !.frags = @ \o SplitFrags(data, len, w.maxfraglen, comp)]

(***************************************************************************)
(* DNS answer cache                                                        *)
(***************************************************************************)
DNSCACHE_ANSWER_SIZE == 4096

\* save_to_dnscache as it would be if it always filled the slot after slot 0
\* (lastfilled never advanced)
save_to_dnscache_oneslot(u, q, answer, answerlen) ==
  IF answerlen > DNSCACHE_ANSWER_SIZE THEN u
  ELSE LET fill == IF 1 >= DNSCACHE_LEN THEN 0 ELSE 1
       IN [u EXCEPT !.dnscache_q[fill] = StoreQuery(q, q.time_recv),
                    !.dnscache_answer[fill] = answer,
                    !.dnscache_answerlen[fill] = answerlen]

\* save_to_dnscache(userid, q, answer, answerlen) on user record u
save_to_dnscache(u, q, answer, answerlen) ==
  IF answerlen > DNSCACHE_ANSWER_SIZE THEN u
  ELSE LET fill == IF u.dnscache_lastfilled + 1 >= DNSCACHE_LEN THEN 0
                   ELSE u.dnscache_lastfilled + 1
       IN [u EXCEPT !.dnscache_q[fill] = StoreQuery(q, q.time_recv),
                    !.dnscache_answer[fill] = answer,
                    !.dnscache_answerlen[fill] = answerlen,
                    !.dnscache_lastfilled = fill]

\* the cache slot tried at step i of the most-recent-first walk
CacheSlot(u, i) ==
  IF u.dnscache_lastfilled - i < 0 THEN u.dnscache_lastfilled - i + DNSCACHE_LEN
  ELSE u.dnscache_lastfilled - i

CacheMatch(u, use, q) ==
  /\ u.dnscache_q[use].id # 0
  /\ u.dnscache_answerlen[use] > 0
  /\ u.dnscache_q[use].type = q.type
  /\ u.dnscache_q[use].name = q.name

\* answer_from_dnscache as it would be if a hit cleared the id of the stored
\* entry instead of the id of the incoming query
answer_from_dnscache_clears(u, q) ==
  LET hits == {i \in 0 .. (DNSCACHE_LEN - 1) : CacheMatch(u, CacheSlot(u, i), q)}
  IN IF hits = {} THEN [ret |-> 0, out |-> <<>>, qid |-> q.id, u |-> u]
     ELSE LET i == CHOOSE i \in hits : \A j \in hits : i <= j
              use == CacheSlot(u, i)
          IN [ret |-> 1,
              out |-> <<Answer(q, u.dnscache_answer[use], u.downenc)>>,
              qid |-> q.id, u |-> [u EXCEPT !.dnscache_q[use].id = 0]]

\* answer_from_dnscache: [ret, out, qid: q->id on return, u: the user after]
answer_from_dnscache(u, q) ==
  LET hits == {i \in 0 .. (DNSCACHE_LEN - 1) : CacheMatch(u, CacheSlot(u, i), q)}
  IN IF hits = {} THEN [ret |-> 0, out |-> <<>>, qid |-> q.id, u |-> u]
     ELSE LET i == CHOOSE i \in hits : \A j \in hits : i <= j
              use == CacheSlot(u, i)
          IN [ret |-> 1,
              out |-> <<Answer(q, u.dnscache_answer[use], u.downenc)>>,
              qid |-> 0, u |-> u]

(***************************************************************************)
(* Downstream responses                                                    *)
(***************************************************************************)
B(x) == IF x THEN 1 ELSE 0

\* send_data_or_ping(dns_fds, userid, q, ping, respond_now, immediate) on
\* user record u: [u: the user afterwards, out: the answers sent]
send_data_or_ping(u, q, ping, respond_now, immediate) ==
  LET hasf == Len(u.outgoing.frags) > 0
      f == Head(u.outgoing.frags)
      \* window_get_next_sending_fragment takes the ack with the fragment
      u1 == IF hasf
            THEN [u EXCEPT !.outgoing.frags = Tail(@), !.next_upstream_ack = -1]
            ELSE u
  IN IF ~hasf /\ u.lazy /\ respond_now = 0 THEN [u |-> u1, out |-> <<>>]
     ELSE LET isping == IF hasf THEN ping ELSE 1
              datalen == IF hasf THEN f.len ELSE 0
              comp == IF hasf THEN f.comp ELSE 0
              u2 == [u1 EXCEPT !.next_upstream_ack = -1]
              headerlen == IF isping = 1 THEN DOWNSTREAM_PING_HDR
                           ELSE DOWNSTREAM_HDR
              pkt == Pkt(isping, u.next_upstream_ack, datalen, comp, immediate)
          IN IF datalen + headerlen > MAX_FRAGSIZE + DOWNSTREAM_PING_HDR
             THEN [u |-> u2, out |-> <<>>]
             ELSE LET u3 == save_to_dnscache(u2, q, pkt, datalen + headerlen)
                  IN [u |-> [u3 EXCEPT !.qmem = qmem_answered(@)],
                      out |-> <<Answer(q, pkt, u.downenc)>>]

\* user_active (user.c)
user_active(u, t) == u.active /\ t - u.last_pkt < IDLE

NoWait == [wait |-> DefaultWait, touser |-> -1, sendq |-> QKey(EmptyQuery(0))]

\* the loop over the pending queries of user userid in qmem_max_wait;
\* st = [u, out, tv]: the user, the answers sent so far, soonest/nextuser/nextq
RECURSIVE MaxWaitQueries(_, _, _, _, _)
MaxWaitQueries(st, userid, qnum, sending, t) ==
  IF qnum = st.u.qmem.end THEN st
  ELSE LET u == st.u
           q == u.qmem.queries[qnum]
           timeout == q.time_recv + u.dns_timeout
       IN IF sending > 0 \/ ~(t < timeout) \/ u.next_upstream_ack >= 0
             \/ u.send_ping_next
          THEN LET r == send_data_or_ping(u, q, B(u.send_ping_next), 1, 0)
               IN MaxWaitQueries(
                    [st EXCEPT !.u = [r.u EXCEPT !.send_ping_next = FALSE],
                               !.out = @ \o r.out],
                    userid, (qnum + 1) % QMEM_LEN,
                    IF sending > 0 THEN sending - 1 ELSE sending, t)
          ELSE IF timeout - t < st.tv.wait
          THEN [st EXCEPT !.tv = [wait |-> timeout - t, touser |-> userid,
                                   sendq |-> QKey(q)]]
          ELSE MaxWaitQueries(st, userid, (qnum + 1) % QMEM_LEN, sending, t)

\* the loop body as it would be if every pending query counted as excess
MaxWaitUser_flush(u, userid, acc, t) ==
  IF ~user_active(u, t) \/ u.qmem.num_pending = 0 \/ ~u.lazy
  THEN [u |-> u, out |-> acc.out, tv |-> acc.tv]
  ELSE MaxWaitQueries([u |-> u, out |-> acc.out, tv |-> acc.tv], userid,
                      u.qmem.start_pending, u.qmem.num_pending, t)

\* the body of qmem_max_wait's loop over the users, for one user
MaxWaitUser(u, userid, acc, t) ==
  IF ~user_active(u, t) \/ u.qmem.num_pending = 0 \/ ~u.lazy
  THEN [u |-> u, out |-> acc.out, tv |-> acc.tv]
  ELSE LET ws == window_sending(u.outgoing)
           total == IF u.qmem.num_pending > u.outgoing.windowsize
                    THEN Max(ws, u.qmem.num_pending - u.outgoing.windowsize)
                    ELSE ws
       IN MaxWaitQueries([u |-> u, out |-> acc.out, tv |-> acc.tv], userid,
                         u.qmem.start_pending, total, t)

\* qmem_max_wait over users userid, userid + 1, ...;
\* acc = [users, out, tv]
RECURSIVE MaxWaitUsers(_, _, _)
MaxWaitUsers(acc, userid, t) ==
  IF userid >= USERS THEN acc
  ELSE LET r == MaxWaitUser(acc.users[userid], userid, acc, t)
       IN MaxWaitUsers([users |-> [acc.users EXCEPT ![userid] = r.u],
                        out |-> r.out, tv |-> r.tv], userid + 1, t)

qmem_max_wait(us, t) ==
  MaxWaitUsers([users |-> us, out |-> <<>>, tv |-> NoWait], 0, t)

(***************************************************************************)
(* User table helpers (user.c)                                             *)
(***************************************************************************)
\* a slot before its first Version request
InitUser(tmo) ==
  [active |-> FALSE, authenticated |-> FALSE, host |-> 0, last_pkt |-> 0,
   authenticated_raw |-> FALSE, seed |-> 0, encoder |-> "",
   lazy |-> FALSE, downenc |-> "", downenc_bits |-> 0,
   down_compression |-> FALSE, fragsize |-> 0, conn |-> "NONE",
   next_upstream_ack |-> -1, send_ping_next |-> FALSE, dns_timeout |-> tmo,
   qmem |-> [qmem_init EXCEPT
              !.queries = [i \in 0 .. (QMEM_LEN - 1) |-> EmptyQuery(0)]],
   dnscache_q |-> [i \in 0 .. (DNSCACHE_LEN - 1) |-> EmptyQuery(0)],
   dnscache_answer |-> [i \in 0 .. (DNSCACHE_LEN - 1) |-> Text("")],
   dnscache_answerlen |-> [i \in 0 .. (DNSCACHE_LEN - 1) |-> 0],
   dnscache_lastfilled |-> 0,
   outgoing |-> [maxfraglen |-> 100, windowsize |-> WINDOWSIZE, frags |-> <<>>]]

check_user_and_ip(us, userid, q, t, cip) ==
  IF userid < 0 \/ userid >= USERS THEN 1
  ELSE IF ~user_active(us[userid], t) THEN 1
  ELSE IF ~cip THEN 0
  ELSE IF us[userid].host # q.from THEN 1 ELSE 0

check_authenticated_user_and_ip(us, userid, q, t, cip) ==
  IF check_user_and_ip(us, userid, q, t, cip) # 0 THEN 1
  ELSE IF ~us[userid].authenticated THEN 1 ELSE 0

find_available_user(us, t) ==
  LET free == {u \in Users : ~user_active(us[u], t)}
  IN IF free = {} THEN -1 ELSE CHOOSE u \in free : \A v \in free : u <= v

\* all_users_waiting_to_send (user.c): no active user has room in its
\* outgoing window
all_users_waiting_to_send(us, t) ==
  \A u \in Users :
    user_active(us[u], t) => Len(us[u].outgoing.frags) >= OUTLEN

find_user_by_ip(us, dst, t) ==
  IF dst \in Users /\ user_active(us[dst], t) /\ us[dst].authenticated
  THEN dst ELSE -1

(***************************************************************************)
(* Packets towards a user or the tun device                                *)
(***************************************************************************)
\* user_send_data as it would be if it sent every packet with send_raw,
\* whatever the user's conn
user_send_data_sendraw(u, userid, p, compressed) ==
  LET indata == IF compressed = 1 THEN "deflated" ELSE "packet"
      len == IF compressed = 1 THEN p.z ELSE p.raw
      data == IF u.down_compression /\ compressed = 0 THEN "deflated"
              ELSE indata
      datalen == IF u.down_compression /\ compressed = 0 THEN p.z
                 ELSE IF ~u.down_compression /\ compressed = 1 THEN p.raw
                 ELSE len
      comp == B(u.down_compression)
  IN IF datalen > 0
     THEN [u |-> u, out |-> <<RawSend(userid, data, datalen, comp)>>]
     ELSE [u |-> u, out |-> <<>>]

\* user_send_data as it would be if it kept the compressed flag it was called
\* with
user_send_data_keepflag(u, userid, p, compressed) ==
  LET indata == IF compressed = 1 THEN "deflated" ELSE "packet"
      len == IF compressed = 1 THEN p.z ELSE p.raw
      data == IF u.down_compression /\ compressed = 0 THEN "deflated"
              ELSE indata
      datalen == IF u.down_compression /\ compressed = 0 THEN p.z
                 ELSE IF ~u.down_compression /\ compressed = 1 THEN p.raw
                 ELSE len
      comp == compressed
  IN IF u.conn = "DNS_NULL" /\ datalen > 0
     THEN [u |-> [u EXCEPT !.outgoing =
                    window_add_outgoing_data(@, data, datalen, comp)],
           out |-> <<>>]
     ELSE IF datalen > 0
     THEN [u |-> u, out |-> <<RawSend(userid, data, datalen, comp)>>]
     ELSE [u |-> u, out |-> <<>>]

\* user_send_data(userid, dns_fds, indata, len, compressed) for IP packet p,
\* handed over compressed (indata is the deflated packet, len = p.z) or not
\* (the packet itself, len = p.raw). data is what it passes on: the output of
\* compress2, or indata, also after uncompress, whose output it leaves in out.
\* [u: the user afterwards, out: what was sent raw]
user_send_data(u, userid, p, compressed) ==
  LET indata == IF compressed = 1 THEN "deflated" ELSE "packet"
      len == IF compressed = 1 THEN p.z ELSE p.raw
      data == IF u.down_compression /\ compressed = 0 THEN "deflated"
              ELSE indata
      datalen == IF u.down_compression /\ compressed = 0 THEN p.z
                 ELSE IF ~u.down_compression /\ compressed = 1 THEN p.raw
                 ELSE len
      comp == B(u.down_compression)
  IN IF u.conn = "DNS_NULL" /\ datalen > 0
     THEN [u |-> [u EXCEPT !.outgoing =
                    window_add_outgoing_data(@, data, datalen, comp)],
           out |-> <<>>]
     ELSE IF datalen > 0
     THEN [u |-> u, out |-> <<RawSend(userid, data, datalen, comp)>>]
     ELSE [u |-> u, out |-> <<>>]

\* bits of data per character of an encoder's output
EncBits(enc) ==
  CASE enc = "base32" -> 5
    [] enc = "base64" -> 6
    [] enc = "base64u" -> 6
    [] enc = "base128" -> 7
    [] OTHER -> 8

\* unpack_data(buf, len, data, datalen, enc) for the characters a client made
\* from packet p with encoder by: the packet itself when enc is that encoder,
\* else as many meaningless bytes as enc makes of those characters
unpack_data(p, by, enc) ==
  IF p = NoPkt \/ by = enc THEN p
  ELSE LET len == (((p.raw * 8) \div EncBits(by)) * EncBits(enc)) \div 8
       IN IpPkt(len, len, -2)

\* handle_full_packet for the reassembled packet p of user userid; garbage
\* is the user found from the uninitialised out[] when p is not compressed
handle_full_packet(us, userid, p, compressed, garbage, t) ==
  LET touser == IF compressed = 1 THEN find_user_by_ip(us, p.dst, t)
                ELSE garbage
  IN IF compressed = 1 /\ p.dst = -2 THEN [users |-> us, out |-> <<>>]
     ELSE IF touser = -1
     THEN [users |-> us,
           out |-> <<IF p.dst = -2 THEN TunWriteJunk(p.raw)
                     ELSE TunWrite(p.raw)>>]
     ELSE LET r == IF us[touser].down_compression /\ compressed = 1
                   THEN user_send_data(us[touser], touser, p, 1)
                   ELSE user_send_data(us[touser], touser, p, 0)
          IN [users |-> [us EXCEPT ![touser] = r.u], out |-> r.out]

\* user_process_incoming_data once the fragment is in the incoming window:
\* p is the packet window_reassemble_data returns (NoPkt: none)
user_process_incoming_data(us, userid, p, compressed, garbage, t) ==
  LET us1 == [us EXCEPT ![userid].last_pkt = t]
  IN IF p = NoPkt THEN [users |-> us1, out |-> <<>>]
     ELSE handle_full_packet(us1, userid, p, compressed, garbage, t)

(***************************************************************************)
(* handle_null_request, one operator per command.  Each gives              *)
(* [users: the user table afterwards, out: the answers sent].              *)
(***************************************************************************)
Reply(us, q, txt, enc) == [users |-> us, out |-> <<Answer(q, Text(txt), enc)>>]

Silent(us) == [users |-> us, out |-> <<>>]

\* base32 get_raw_length
Base32RawLength(n) == (5 * n) \div 8

\* send_version_response as it would be if it sent the userid in place of
\* the payload
send_version_response_nopayload(us, ack, payload, userid, q) ==
  [users |-> us,
   out |-> <<Answer(q, VersionText(ack, userid, userid), us[userid].downenc)>>]

send_version_response(us, ack, payload, userid, q) ==
  [users |-> us,
   out |-> <<Answer(q, VersionText(ack, payload, userid), us[userid].downenc)>>]

\* the V handler as it would be if it left the answer cache of the slot alone
HandleVersion_keepcache(us, q, t, rnd) ==
  LET version == IF q.name.b > 4 THEN q.name.a ELSE 0
  IN IF version # PROTOCOL_VERSION
     THEN send_version_response(us, "VNAK", PROTOCOL_VERSION, 0, q)
     ELSE LET userid == find_available_user(us, t)
          IN IF userid < 0
             THEN send_version_response(us, "VFUL", USERS, 0, q)
             ELSE LET raw == q.type \in {"NULL", "PRIVATE"}
                      u == [us[userid] EXCEPT
                             !.active = TRUE, !.authenticated = FALSE,
                             !.authenticated_raw = FALSE,
                             !.last_pkt = t, !.seed = rnd, !.host = q.from,
                             !.encoder = "base32",
                             !.downenc = IF raw THEN "R" ELSE "T",
                             !.downenc_bits = IF raw THEN 8 ELSE 5,
                             !.down_compression = TRUE,
                             !.fragsize = 100, !.conn = "DNS_NULL",
                             !.lazy = FALSE,
                             !.outgoing = [@ EXCEPT
                                !.maxfraglen = ToUnsigned(Base32RawLength(100)
                                                - DOWNSTREAM_PING_HDR),
                                !.frags = <<>>],
                             !.next_upstream_ack = -1, !.send_ping_next = FALSE,
                             !.qmem = qmem_init]
                  IN send_version_response([us EXCEPT ![userid] = u], "VACK",
                                           u.seed, userid, q)

\* rnd is the value rand() returns
HandleVersion(us, q, t, rnd) ==
  LET version == IF q.name.b > 4 THEN q.name.a ELSE 0
  IN IF version # PROTOCOL_VERSION
     THEN send_version_response(us, "VNAK", PROTOCOL_VERSION, 0, q)
     ELSE LET userid == find_available_user(us, t)
          IN IF userid < 0
             THEN send_version_response(us, "VFUL", USERS, 0, q)
             ELSE LET raw == q.type \in {"NULL", "PRIVATE"}
                      u == [us[userid] EXCEPT
                             !.active = TRUE, !.authenticated = FALSE,
                             !.authenticated_raw = FALSE,
                             !.last_pkt = t, !.seed = rnd, !.host = q.from,
                             !.encoder = "base32",
                             !.downenc = IF raw THEN "R" ELSE "T",
                             !.downenc_bits = IF raw THEN 8 ELSE 5,
                             !.down_compression = TRUE,
                             !.fragsize = 100, !.conn = "DNS_NULL",
                             !.lazy = FALSE,
                             !.outgoing = [@ EXCEPT
                                !.maxfraglen = ToUnsigned(Base32RawLength(100)
                                                - DOWNSTREAM_PING_HDR),
                                !.frags = <<>>],
                             !.next_upstream_ack = -1, !.send_ping_next = FALSE,
                             !.qmem = qmem_init,
                             !.dnscache_q = [i \in 0 .. (DNSCACHE_LEN - 1) |->
                                               [@[i] EXCEPT !.id = 0]],
                             !.dnscache_answerlen =
                                [i \in 0 .. (DNSCACHE_LEN - 1) |-> 0],
                             !.dnscache_lastfilled = 0]
                  IN send_version_response([us EXCEPT ![userid] = u], "VACK",
                                           u.seed, userid, q)

\* login_calculate(buf, 16, password, seed): the digest of the server's
\* password and a seed is named by the seed (seeds are positive); 0 names
\* every other 16 bytes
login_calculate(seed) == seed

\* the L handler as it would be if it never compared the source address
HandleLogin_anysource(us, q, t, cip) ==
  LET userid == q.name.uid
      read == q.name.b
  IN IF read < 17 THEN Reply(us, q, "BADLEN", "T")
     ELSE IF check_user_and_ip(us, userid, q, t, FALSE) # 0
     THEN Reply(us, q, "BADIP", "T")
     ELSE LET us1 == [us EXCEPT ![userid].last_pkt = t]
          IN IF read >= 18 /\ login_calculate(us[userid].seed) = q.name.a
             THEN Reply([us1 EXCEPT ![userid].authenticated = TRUE], q,
                        "LOGIN", us[userid].downenc)
             ELSE Reply(us1, q, "LNAK", "T")

HandleLogin(us, q, t, cip) ==
  LET userid == q.name.uid
      read == q.name.b
  IN IF read < 17 THEN Reply(us, q, "BADLEN", "T")
     ELSE IF check_user_and_ip(us, userid, q, t, cip) # 0
     THEN Reply(us, q, "BADIP", "T")
     ELSE LET us1 == [us EXCEPT ![userid].last_pkt = t]
          IN IF read >= 18 /\ login_calculate(us[userid].seed) = q.name.a
             THEN Reply([us1 EXCEPT ![userid].authenticated = TRUE], q,
                        "LOGIN", us[userid].downenc)
             ELSE Reply(us1, q, "LNAK", "T")

\* the option strings clients send in the model
OptStrings ==
  << <<"L">>, <<"I">>, <<"R">>, <<"L", "X">>, <<"T", "L", "I">>,
     <<"D", "S", "V">>, <<"C", "U">>, <<"T", "D", "X">>, <<"I", "D", "L">>,
     <<>> >>

\* the numbers of other option-count characters a client sends with the
\* one-character option string: '/' , '0', '2' and ':'
BadCounts == {-1, 0, 2, 10}

\* domain_len of an O name: the command, the userid, the count, the
\* characters of the option string and the three that end the name
OptsDomainLen(n) == 6 + Len(OptStrings[n.a])

\* the switch over option i of opts; tmp = [ok, lazy, comp, downenc, bits]
RECURSIVE ApplyOpts(_, _, _)
ApplyOpts(opts, i, tmp) ==
  IF i > Len(opts) \/ ~tmp.ok THEN tmp
  ELSE LET c == opts[i]
       IN ApplyOpts(opts, i + 1,
            CASE c = "T" -> [tmp EXCEPT !.downenc = "T", !.bits = 5]
              [] c = "S" -> [tmp EXCEPT !.downenc = "S", !.bits = 6]
              [] c = "U" -> [tmp EXCEPT !.downenc = "U", !.bits = 6]
              [] c = "V" -> [tmp EXCEPT !.downenc = "V", !.bits = 7]
              [] c = "R" -> [tmp EXCEPT !.downenc = "R", !.bits = 8]
              [] c = "L" -> [tmp EXCEPT !.lazy = TRUE]
              [] c = "I" -> [tmp EXCEPT !.lazy = FALSE]
              [] c = "C" -> [tmp EXCEPT !.comp = TRUE]
              [] c = "D" -> [tmp EXCEPT !.comp = FALSE]
              [] OTHER -> [tmp EXCEPT !.ok = FALSE])

\* the O handler as it would be if it stored each option as it parsed it
HandleOptions_eager(us, q, t, cip, garbage) ==
  LET userid == q.name.uid
      numopts == q.name.b
      opts == SubSeq(OptStrings[q.name.a], 1, Max(numopts, 0))
  IN IF OptsDomainLen(q.name) < 7 THEN Reply(us, q, "BADLEN", "T")
     ELSE IF check_authenticated_user_and_ip(us, userid, q, t, cip) # 0
     THEN Reply(us, q, "BADIP", "T")
     ELSE IF OptsDomainLen(q.name) < numopts + 6 \/ numopts = 0 \/ numopts > 9
     THEN Reply(us, q, "BADLEN", "T")
     ELSE LET u == us[userid]
              tmp == ApplyOpts(opts, 1,
                       [ok |-> TRUE, lazy |-> u.lazy,
                        comp |-> u.down_compression, downenc |-> u.downenc,
                        bits |-> 0])
              bits == IF q.type = "NULL" /\ tmp.bits = 0 THEN 8 ELSE tmp.bits
              u1 == IF bits # 0
                    THEN [u EXCEPT
                           !.outgoing.maxfraglen =
                              ToUnsigned(((bits * u.fragsize) \div 8)
                                         - DOWNSTREAM_PING_HDR),
                           !.downenc_bits = bits]
                    ELSE u
              u2 == [u1 EXCEPT !.down_compression = tmp.comp,
                               !.downenc = tmp.downenc, !.lazy = tmp.lazy]
          IN IF ~tmp.ok
             THEN Reply([us EXCEPT ![userid] = u2], q, "BADCODEC", u.downenc)
             ELSE [users |-> [us EXCEPT ![userid] = u2],
                   out |-> IF numopts >= 0
                           THEN <<Answer(q, OptsText(opts), u2.downenc)>>
                           ELSE IF garbage = -1 THEN <<>>
                           ELSE <<Answer(q, OptsOverrun, u2.downenc)>>]

\* numopts is an int and is passed to write_dns as a size_t: with a negative
\* numopts write_dns reads past the query buffer; garbage tells whether it
\* then finds the bytes do not fit and sends nothing (-1) or sends them
HandleOptions(us, q, t, cip, garbage) ==
  LET userid == q.name.uid
      numopts == q.name.b
      opts == SubSeq(OptStrings[q.name.a], 1, Max(numopts, 0))
  IN IF OptsDomainLen(q.name) < 7 THEN Reply(us, q, "BADLEN", "T")
     ELSE IF check_authenticated_user_and_ip(us, userid, q, t, cip) # 0
     THEN Reply(us, q, "BADIP", "T")
     ELSE IF OptsDomainLen(q.name) < numopts + 6 \/ numopts = 0 \/ numopts > 9
     THEN Reply(us, q, "BADLEN", "T")
     ELSE LET u == us[userid]
              tmp == ApplyOpts(opts, 1,
                       [ok |-> TRUE, lazy |-> u.lazy,
                        comp |-> u.down_compression, downenc |-> u.downenc,
                        bits |-> 0])
              bits == IF q.type = "NULL" /\ tmp.bits = 0 THEN 8 ELSE tmp.bits
              u1 == IF bits # 0
                    THEN [u EXCEPT
                           !.outgoing.maxfraglen =
                              ToUnsigned(((bits * u.fragsize) \div 8)
                                         - DOWNSTREAM_PING_HDR),
                           !.downenc_bits = bits]
                    ELSE u
              u2 == [u1 EXCEPT !.down_compression = tmp.comp,
                               !.downenc = tmp.downenc, !.lazy = tmp.lazy]
          IN IF ~tmp.ok THEN Reply(us, q, "BADCODEC", u.downenc)
             ELSE [users |-> [us EXCEPT ![userid] = u2],
                   out |-> IF numopts >= 0
                           THEN <<Answer(q, OptsText(opts), u2.downenc)>>
                           ELSE IF garbage = -1 THEN <<>>
                           ELSE <<Answer(q, OptsOverrun, u2.downenc)>>]

HandleFragsize(us, q, t, cip) ==
  LET userid == q.name.uid
      max_frag_size == q.name.a
  IN IF check_authenticated_user_and_ip(us, userid, q, t, cip) # 0
     THEN Reply(us, q, "BADIP", "T")
     ELSE IF max_frag_size < 2
     THEN Reply(us, q, "BADFRAG", us[userid].downenc)
     ELSE Reply([us EXCEPT
                   ![userid].fragsize = max_frag_size,
                   ![userid].outgoing.maxfraglen =
                      ToUnsigned(((us[userid].downenc_bits * max_frag_size)
                                  \div 8) - DOWNSTREAM_PING_HDR)],
                q, "FRAGSIZE", us[userid].downenc)

\* I: the server's address, always 'T' encoded
HandleIp(us, q, t, cip) ==
  IF check_authenticated_user_and_ip(us, q.name.uid, q, t, cip) # 0
  THEN Reply(us, q, "BADIP", "T")
  ELSE Reply(us, q, "I", "T")

\* the upstream encoder the S handler picks for a codec id ("": none)
CodecOf(codec) ==
  CASE codec = 5 -> "base32"
    [] codec = 6 -> "base64"
    [] codec = 26 -> "base64u"
    [] codec = 7 -> "base128"
    [] OTHER -> ""

\* user_switch_codec (user.c)
user_switch_codec(u, enc) == [u EXCEPT !.encoder = enc]

HandleSwitchCodec(us, q, t, cip) ==
  LET userid == q.name.uid
      enc == CodecOf(q.name.a)
  IN IF check_authenticated_user_and_ip(us, userid, q, t, cip) # 0
     THEN Reply(us, q, "BADIP", "T")
     ELSE IF enc = "" THEN Reply(us, q, "BADCODEC", us[userid].downenc)
     ELSE Reply([us EXCEPT ![userid] = user_switch_codec(@, enc)], q, enc,
                us[userid].downenc)

\* R: rnd is the value rand() returns
HandleProbe(us, q, t, cip, rnd) ==
  LET userid == q.name.uid
      req_frag_size == q.name.a
  IN IF check_authenticated_user_and_ip(us, userid, q, t, cip) # 0
     THEN Reply(us, q, "BADIP", "T")
     ELSE IF req_frag_size < 2 \/ req_frag_size > 2047
     THEN Reply(us, q, "BADFRAG", us[userid].downenc)
     ELSE [users |-> us,
           out |-> <<Answer(q, ProbeText(req_frag_size, rnd % 256),
                            us[userid].downenc)>>]

\* the opening of the P and data branches as it would be if qmem were
\* consulted before the answer cache
CacheThenQmem_qmemfirst(u, q) ==
  LET a == qmem_append(u.qmem, q)
      u1 == [u EXCEPT !.qmem = a.buf]
      c == answer_from_dnscache(u1, q)
  IN IF a.ret = 0 THEN [go |-> FALSE, u |-> u, out |-> a.out]
     ELSE IF c.ret # 0 THEN [go |-> FALSE, u |-> u1, out |-> c.out]
     ELSE [go |-> TRUE, u |-> u1, out |-> a.out]

\* the answer cache and qmem checks that open the P and data branches:
\* [go: whether the handler continues, u: the user afterwards, out]
CacheThenQmem(u, q) ==
  LET c == answer_from_dnscache(u, q)
      a == qmem_append(u.qmem, q)
  IN IF c.ret # 0 THEN [go |-> FALSE, u |-> c.u, out |-> c.out]
     ELSE IF a.ret = 0 THEN [go |-> FALSE, u |-> u, out |-> a.out]
     ELSE [go |-> TRUE, u |-> [u EXCEPT !.qmem = a.buf], out |-> a.out]

\* HandlePing as it would be without the test for DNS id 0
HandlePing_anyid(us, q, t, cip) ==
  LET userid == q.name.uid
  IN IF check_authenticated_user_and_ip(us, userid, q, t, cip) # 0
     THEN Reply(us, q, "BADIP", "T")
     ELSE LET g == CacheThenQmem(us[userid], q)
              u1 == IF q.name.b # -1 THEN [g.u EXCEPT !.dns_timeout = q.name.b]
                    ELSE g.u
              r == user_process_incoming_data([us EXCEPT ![userid] = u1],
                                              userid, NoPkt, 0, -1, t)
          IN IF ~g.go THEN [users |-> [us EXCEPT ![userid] = g.u], out |-> g.out]
             ELSE [users |-> [r.users EXCEPT
                               ![userid].send_ping_next = (q.name.a = 1)],
                   out |-> g.out \o r.out]

HandlePing(us, q, t, cip) ==
  LET userid == q.name.uid
  IN IF q.id = 0 THEN Silent(us)
     ELSE IF check_authenticated_user_and_ip(us, userid, q, t, cip) # 0
     THEN Reply(us, q, "BADIP", "T")
     ELSE LET g == CacheThenQmem(us[userid], q)
              u1 == IF q.name.b # -1 THEN [g.u EXCEPT !.dns_timeout = q.name.b]
                    ELSE g.u
              r == user_process_incoming_data([us EXCEPT ![userid] = u1],
                                              userid, NoPkt, 0, -1, t)
          IN IF ~g.go THEN [users |-> [us EXCEPT ![userid] = g.u], out |-> g.out]
             ELSE [users |-> [r.users EXCEPT
                               ![userid].send_ping_next = (q.name.a = 1)],
                   out |-> g.out \o r.out]

\* the data branch as it would be if it tested the source address only
HandleData_anyuser(us, q, t, cip, garbage) ==
  LET userid == q.name.uid
  IN IF q.id = 0 THEN Silent(us)
     ELSE IF check_user_and_ip(us, userid, q, t, cip) # 0
     THEN Reply(us, q, "BADIP", "T")
     ELSE LET g == CacheThenQmem(us[userid], q)
              u1 == [g.u EXCEPT !.next_upstream_ack = q.name.a]
              p == unpack_data(q.name.pkt, q.name.enc, us[userid].encoder)
              r == user_process_incoming_data([us EXCEPT ![userid] = u1],
                                              userid, p, q.name.b, garbage, t)
          IN IF ~g.go THEN [users |-> [us EXCEPT ![userid] = g.u], out |-> g.out]
             ELSE [users |-> r.users, out |-> g.out \o r.out]

\* the data branch as it would be if the fragment were always decoded with
\* the base32 encoder
HandleData_base32(us, q, t, cip, garbage) ==
  LET userid == q.name.uid
  IN IF q.id = 0 THEN Silent(us)
     ELSE IF check_authenticated_user_and_ip(us, userid, q, t, cip) # 0
     THEN Reply(us, q, "BADIP", "T")
     ELSE LET g == CacheThenQmem(us[userid], q)
              \* window_process_incoming_fragment returns the ack to send
              u1 == [g.u EXCEPT !.next_upstream_ack = q.name.a]
              p == unpack_data(q.name.pkt, q.name.enc, "base32")
              r == user_process_incoming_data([us EXCEPT ![userid] = u1],
                                              userid, p, q.name.b, garbage, t)
          IN IF ~g.go THEN [users |-> [us EXCEPT ![userid] = g.u], out |-> g.out]
             ELSE [users |-> r.users, out |-> g.out \o r.out]

HandleData(us, q, t, cip, garbage) ==
  LET userid == q.name.uid
  IN IF q.id = 0 THEN Silent(us)
     ELSE IF check_authenticated_user_and_ip(us, userid, q, t, cip) # 0
     THEN Reply(us, q, "BADIP", "T")
     ELSE LET g == CacheThenQmem(us[userid], q)
              \* window_process_incoming_fragment returns the ack to send
              u1 == [g.u EXCEPT !.next_upstream_ack = q.name.a]
              p == unpack_data(q.name.pkt, q.name.enc, us[userid].encoder)
              r == user_process_incoming_data([us EXCEPT ![userid] = u1],
                                              userid, p, q.name.b, garbage, t)
          IN IF ~g.go THEN [users |-> [us EXCEPT ![userid] = g.u], out |-> g.out]
             ELSE [users |-> r.users, out |-> g.out \o r.out]

handle_null_request(us, q, t, cip, garbage, rnd) ==
  CASE q.name.cmd = "V" -> HandleVersion(us, q, t, rnd)
    [] q.name.cmd = "L" -> HandleLogin(us, q, t, cip)
    [] q.name.cmd = "O" -> HandleOptions(us, q, t, cip, garbage)
    [] q.name.cmd = "N" -> HandleFragsize(us, q, t, cip)
    [] q.name.cmd = "I" -> HandleIp(us, q, t, cip)
    [] q.name.cmd = "S" -> HandleSwitchCodec(us, q, t, cip)
    [] q.name.cmd = "R" -> HandleProbe(us, q, t, cip, rnd)
    [] q.name.cmd = "P" -> HandlePing(us, q, t, cip)
    [] q.name.cmd = "D" -> HandleData(us, q, t, cip, garbage)
    [] OTHER -> Silent(us)

(***************************************************************************)
(* Packets with the raw header                                             *)
(***************************************************************************)
handle_raw_login(us, q, t, cip) ==
  LET userid == q.name.uid
  IN IF q.name.b < 16 THEN Silent(us)
     ELSE IF userid < 0 \/ userid >= USERS THEN Silent(us)
     ELSE IF check_authenticated_user_and_ip(us, userid, q, t, cip) = 0
     THEN Silent(us)
     ELSE IF login_calculate(us[userid].seed + 1) # q.name.a THEN Silent(us)
     ELSE [users |-> [us EXCEPT ![userid].last_pkt = t,
                                ![userid].host = q.from,
                                ![userid].conn = "RAW_UDP",
                                ![userid].authenticated_raw = TRUE],
           out |-> <<RawReply(userid, "LOGIN",
                              login_calculate(us[userid].seed - 1))>>]

\* handle_raw_data as it would be if it did not ask for a raw login
handle_raw_data_nologin(us, q, t, cip) ==
  LET userid == q.name.uid
  IN IF check_authenticated_user_and_ip(us, userid, q, t, cip) # 0
     THEN Silent(us)
     ELSE handle_full_packet([us EXCEPT ![userid].last_pkt = t], userid,
                             q.name.pkt, 1, -1, t)

handle_raw_data(us, q, t, cip) ==
  LET userid == q.name.uid
  IN IF check_authenticated_user_and_ip(us, userid, q, t, cip) # 0
     THEN Silent(us)
     ELSE IF ~us[userid].authenticated_raw THEN Silent(us)
     ELSE handle_full_packet([us EXCEPT ![userid].last_pkt = t], userid,
                             q.name.pkt, 1, -1, t)

handle_raw_ping(us, q, t, cip) ==
  LET userid == q.name.uid
  IN IF check_authenticated_user_and_ip(us, userid, q, t, cip) # 0
     THEN Silent(us)
     ELSE IF ~us[userid].authenticated_raw THEN Silent(us)
     ELSE [users |-> [us EXCEPT ![userid].last_pkt = t],
           out |-> <<RawReply(userid, "PING", 0)>>]

raw_decode(us, q, t, cip) ==
  CASE q.name.cmd = "rawlogin" -> handle_raw_login(us, q, t, cip)
    [] q.name.cmd = "rawdata" -> handle_raw_data(us, q, t, cip)
    [] q.name.cmd = "rawping" -> handle_raw_ping(us, q, t, cip)
    [] OTHER -> Silent(us)

\* tunnel_dns for the packet q that recvfrom returns: read_dns hands a packet
\* with the raw header to raw_decode, tunnel_dns hands a query inside the
\* top domain to handle_null_request
tunnel_dns(us, q, t, cip, garbage, rnd) ==
  IF q.type = "RAW" THEN raw_decode(us, q, t, cip)
  ELSE handle_null_request(us, q, t, cip, garbage, rnd)

\* tunnel_tun for the IP packet p read from the tun device
tunnel_tun(us, p, t) ==
  LET userid == find_user_by_ip(us, p.dst, t)
  IN IF userid < 0 THEN Silent(us)
     ELSE LET r == user_send_data(us[userid], userid, p, 0)
          IN [users |-> [us EXCEPT ![userid] = r.u], out |-> r.out]

(***************************************************************************)
(* What the environment sends                                              *)
(***************************************************************************)
\* The peers of a run are of one kind, fixed at the start:
\*   "poll": a client that sets up a session and polls with P, asking for
\*           pings and changing its timeout; nothing arrives on the tun device
\*   "data": a client that sets up a session and sends P and data fragments,
\*           while small packets for it arrive on the tun device
\*   "bulk": a client that sets up a session, probes and sets fragment sizes
\*           outside 2..2047 and polls with P, while large packets for it
\*           arrive on the tun device
\*  "login": a client that only shakes hands: V over NULL and TXT queries, with
\*           right, wrong and short version payloads, and L with digests of
\*           either seed or of a wrong password, in payloads of 16, 17 and 19
\*           bytes
\*   "roam": a client that sends one query of every command that carries a
\*           userid, and raw packets, from two source addresses, to a server
\*           run with or without check_ip
\*  "codec": a client that sets up a session, switches the upstream codec and
\*           sends data fragments encoded with base32 or base64u
\*   "dual": a client that sets up a lazy session and polls with P, with and
\*           without the respond flag, over both the IPv4 and the IPv6 socket
\*           of the server, while small packets for it arrive on the tun device
\*    "raw": a client that shakes hands with V and L and sends raw logins with
\*           the right and a wrong digest, raw data and raw pings, and an O
\*           request that turns downstream compression off, in any order,
\*           while small packets for it arrive on the tun device
\*   "opts": a client that shakes hands over NULL or TXT queries and sends
\*           option strings of none to three characters, valid and not, with
\*           the right count and with wrong ones, and the least fragsize
Clients ==
  {"poll", "data", "bulk", "login", "roam", "codec", "dual", "raw", "opts"}

\* whether the server of this run has an IPv6 socket (dns_fds->v6fd >= 0)
V6Open(c) == c = "dual"

\* the codec ids the codec client asks for, and the encoders it uses
CodecIds == {5, 6, 26, 7, 9}
ClientEncoders == {"base32", "base64u"}

\* the source addresses of a client's packets
RoamAddrs == {1, 2}
AddrsOf(c) == IF c = "roam" THEN RoamAddrs ELSE Addrs

\* the DNS ids of a client's P and data queries
IdsOf(c) ==
  IF c = "roam" THEN {0, 1} ELSE IF c \in {"codec", "dual"} THEN {1} ELSE Ids

\* the fragment size the roaming client probes and sets
ProbeSize == 200

\* the values rand() returns when the V handler draws the seed
Seeds(c) == IF c = "login" THEN {1, 2} ELSE {1}

Rand(c, q) == IF q.name.cmd = "V" THEN Seeds(c) ELSE {0}

TunPkts(c) ==
  CASE c \in {"data", "dual", "raw"} -> {IpPkt(60, 50, 0)}
    [] c = "bulk" -> {IpPkt(65000, 60000, 0)}
    [] OTHER -> {}

UpPkts == {IpPkt(60, 50, -1)}
FragSizes == {1, 65535}
\* the least fragsize the N handler accepts
SmallFragSizes == {2}
NewTimeouts == {1}
InitTimeouts == {0}

\* P without flags, and P asking for a ping back and setting the timeout
PingNames(c) ==
  IF c \in {"login", "codec", "raw", "opts"} THEN {} ELSE
  {Name("P", u, cmc, 0, -1, -1, NoPkt) : u \in Users, cmc \in Cmcs}
  \cup IF c \in {"poll", "dual"}
       THEN {Name("P", x[1], x[2], 1, x[3], -1, NoPkt) :
               x \in Users \X Cmcs \X NewTimeouts}
       ELSE {}

\* data fragments that complete an uncompressed IP packet
DataNames(c) ==
  IF c \in {"data", "roam"}
  THEN {Name("D", x[1], x[2], 0, 0, -1, x[3]) : x \in Users \X Cmcs \X UpPkts}
  ELSE IF c = "codec"
  THEN {Coded(Name("D", x[1], 0, 0, 0, -1, x[2]), x[3]) :
          x \in Users \X UpPkts \X ClientEncoders}
  ELSE {}

\* payload lengths: a V payload is the version and the CMC, an L payload
\* the userid, the digest and the CMC
VLen == 6
LLen == 19
LoginLens == {16, 17, LLen}

CtrlNames(c) ==
  IF c = "login"
  THEN {Name("V", 0, 0, PROTOCOL_VERSION, VLen, 0, NoPkt),
        Name("V", 0, 0, PROTOCOL_VERSION - 1, VLen, 0, NoPkt),
        Name("V", 0, 0, PROTOCOL_VERSION, 4, 0, NoPkt)}
       \cup {Name("L", x[1], 0, x[2], x[3], 0, NoPkt) :
               x \in Users \X ({0} \cup Seeds(c)) \X LoginLens}
  ELSE IF c = "codec"
  THEN {Name("V", 0, 0, PROTOCOL_VERSION, VLen, 0, NoPkt)}
       \cup {Name("L", u, 0, 1, LLen, 0, NoPkt) : u \in Users}
       \cup {Name("S", u, 0, a, 0, 0, NoPkt) : u \in Users, a \in CodecIds}
  ELSE IF c = "raw"
  THEN {Name("V", 0, 0, PROTOCOL_VERSION, VLen, 0, NoPkt)}
       \cup {Name("L", u, 0, 1, LLen, 0, NoPkt) : u \in Users}
       \cup {Name("O", u, 0, 6, 3, 0, NoPkt) : u \in Users}
  ELSE IF c = "opts"
  THEN {Name("V", 0, 0, PROTOCOL_VERSION, VLen, 0, NoPkt)}
       \cup {Name("L", u, 0, 1, LLen, 0, NoPkt) : u \in Users}
       \cup {Name("O", u, 0, a, Len(OptStrings[a]), 0, NoPkt) :
               u \in Users, a \in 1 .. Len(OptStrings)}
       \cup {Name("O", u, 0, 1, b, 0, NoPkt) : u \in Users, b \in BadCounts}
       \cup {Name("N", u, 0, a, 0, 0, NoPkt) :
               u \in Users, a \in SmallFragSizes}
  ELSE IF c = "roam"
  THEN {Name("V", 0, 0, PROTOCOL_VERSION, VLen, 0, NoPkt)}
       \cup {Name("L", u, 0, 1, b, 0, NoPkt) : u \in Users, b \in {16, LLen}}
       \cup {Name(cmd, u, 0, 0, 0, 0, NoPkt) : cmd \in {"I"}, u \in Users}
       \cup {Name("S", u, 0, 6, 0, 0, NoPkt) : u \in Users}
       \cup {Name("O", u, 0, 1, 1, 0, NoPkt) : u \in Users}
       \cup {Name(cmd, u, 0, ProbeSize, 0, 0, NoPkt) :
               cmd \in {"R", "N"}, u \in Users}
  ELSE
  {Name("V", 0, 0, PROTOCOL_VERSION, VLen, 0, NoPkt)}
  \cup {Name("L", u, 0, 1, LLen, 0, NoPkt) : u \in Users}
  \cup {Name("O", u, 0, 1, 1, 0, NoPkt) : u \in Users}
  \cup IF c = "poll"
       THEN {Name("V", 0, 0, PROTOCOL_VERSION - 1, VLen, 0, NoPkt)}
            \cup {Name("L", u, 0, 0, LLen, 0, NoPkt) : u \in Users}
            \cup {Name("O", u, 0, 2, 1, 0, NoPkt) : u \in Users}
       ELSE IF c = "bulk"
       THEN {Name(cmd, u, 0, a, 0, 0, NoPkt) :
               cmd \in {"N", "R"}, u \in Users, a \in FragSizes}
       ELSE {}

\* the query types a client of kind c uses for its control queries
CtrlTypes(c) == IF c \in {"login", "opts"} THEN Types ELSE {"NULL"}

\* packets with the raw header: a login with the digest of seed + 1, a
\* compressed IP packet and a ping
RawNames(c) ==
  IF c \in {"roam", "raw"}
  THEN {Name("rawlogin", u, 0, login_calculate(s + 1), 16, 0, NoPkt) :
          u \in Users, s \in Seeds(c)}
       \cup (IF c = "raw"
             THEN {Name("rawlogin", u, 0, 0, 16, 0, NoPkt) : u \in Users}
             ELSE {})
       \cup {Name("rawdata", x[1], 0, 0, 0, 0, x[2]) :
               x \in Users \X (UpPkts \cup TunPkts(c))}
       \cup {Name("rawping", u, 0, 0, 0, 0, NoPkt) : u \in Users}
  ELSE {}

\* the queries read_dns can return at time t
Query(id, type, name, from, t) ==
  [id |-> id, type |-> type, name |-> name, from |-> from, time_recv |-> t]

Queries(c, t) ==
  {Query(1, x[3], x[1], x[2], t) :
     x \in CtrlNames(c) \X AddrsOf(c) \X CtrlTypes(c)}
  \cup {Query(x[1], "NULL", x[2], x[3], t) :
          x \in IdsOf(c) \X (PingNames(c) \cup DataNames(c)) \X AddrsOf(c)}
  \cup {Query(0, "RAW", x[1], x[2], t) : x \in RawNames(c) \X AddrsOf(c)}

\* what the uninitialised out[] of handle_full_packet can make
\* find_user_by_ip return; it is read only for an uncompressed packet
Garbage(q) ==
  IF q.name.cmd = "D" /\ q.name.b = 0 /\ q.name.pkt # NoPkt
  THEN Users \cup {-1}
  ELSE IF q.name.cmd = "O" /\ q.name.b < 0 THEN {-1, 0}
  ELSE {-1}

(***************************************************************************)
(* History of the answer cache                                             *)
(***************************************************************************)
\* the length of the answer buffer send_data_or_ping hands to write_dns and
\* save_to_dnscache for the sent answer a
AnswerLen(a) ==
  a.data.len + (IF a.data.ping = 1 THEN DOWNSTREAM_PING_HDR ELSE DOWNSTREAM_HDR)

\* the last DNSCACHE_LEN elements of a sequence
LastSaves(h) ==
  IF Len(h) <= DNSCACHE_LEN THEN h
  ELSE SubSeq(h, Len(h) - DNSCACHE_LEN + 1, Len(h))

\* the history after the answers o of one qmem_max_wait call: every answer
\* send_data_or_ping sent was passed to save_to_dnscache, which stores it
\* unless it is longer than a cache slot
RECURSIVE Remember(_, _)
Remember(h, o) ==
  IF o = <<>> THEN h
  ELSE LET a == Head(o)
           e == [id |-> a.q.id, type |-> a.q.type, name |-> a.q.name,
                 data |-> a.data]
       IN Remember(
            IF a.kind = "dns" /\ a.data.txt = "pkt"
               /\ AnswerLen(a) <= DNSCACHE_ANSWER_SIZE
            THEN [h EXCEPT ![a.q.name.uid] = LastSaves(Append(@, e))]
            ELSE h,
            Tail(o))

\* the history after tunnel_dns sent o: a Version handshake that allocated a
\* slot cleared that slot's cache
Forget(h, o) ==
  IF Len(o) = 1 /\ o[1].data.txt = "VACK"
  THEN [h EXCEPT ![o[1].data.userid] = <<>>]
  ELSE h

\* the raw login addresses after tunnel_dns answered packet q with o: a raw
\* login reply records the source of q, a Version handshake that allocated
\* a slot starts that slot afresh
RawLoginFrom(h, q, o) ==
  IF Len(o) = 1 /\ o[1].kind = "raw" /\ o[1].data.txt = "LOGIN"
  THEN [h EXCEPT ![o[1].q.id] = q.from]
  ELSE IF Len(o) = 1 /\ o[1].data.txt = "VACK"
  THEN [h EXCEPT ![o[1].data.userid] = 0]
  ELSE h

(***************************************************************************)
(* server_tunnel                                                           *)
(***************************************************************************)
\* the state when server_tunnel is entered with max_idle_time = idle, to
\* serve a client of one of the kinds cs
Start(cs, idle) ==
  /\ \E tmo \in InitTimeouts : users = [u \in Users |-> InitUser(tmo)]
  /\ now = 0
  /\ client \in cs
  /\ check_ip \in (IF client = "roam" THEN BOOLEAN ELSE {TRUE})
  /\ pc = "max_wait"
  /\ tv = NoWait
  /\ out = <<>>
  /\ saved = [u \in Users |-> <<>>]
  /\ raw_addr = [u \in Users |-> 0]
  /\ running = TRUE
  /\ last_action = 0
  /\ max_idle_time = idle

Init == Start(Clients, 0)

\* tv = qmem_max_wait(dns_fds, &userid, &answer_now)
QmemMaxWait ==
  /\ pc = "max_wait"
  /\ running
  /\ LET r == qmem_max_wait(users, now)
     IN /\ users' = r.users
        /\ out' = r.out
        /\ tv' = r.tv
        /\ saved' = Remember(saved, r.out)
  /\ pc' = "select"
  /\ UNCHANGED <<now, check_ip, client, raw_addr,
                 running, last_action, max_idle_time>>

\* time passes while select() waits
Tick ==
  /\ pc = "select"
  /\ now < MaxTime
  /\ now' = now + 1
  /\ UNCHANGED <<users, check_ip, client, pc, tv, out, saved, raw_addr,
                 running, last_action, max_idle_time>>

\* the latest last_pkt of the user slots from userid on, or last if later
RECURSIVE LatestAction(_, _, _)
LatestAction(us, userid, last) ==
  IF userid >= USERS THEN last
  ELSE LatestAction(us, userid + 1, Max(us[userid].last_pkt, last))

\* select() returns 0: the idle check.  [running, last_action] afterwards
IdleCheck(us, t, last, idle) ==
  IF idle # 0 /\ t - last > idle
  THEN LET la == LatestAction(us, 0, last)
       IN [running |-> ~(t - la > idle), last_action |-> la]
  ELSE [running |-> TRUE, last_action |-> last]

SelectTimeout ==
  /\ pc = "select"
  /\ pc' = "max_wait"
  /\ out' = <<>>
  /\ LET r == IdleCheck(users, now, last_action, max_idle_time)
     IN running' = r.running /\ last_action' = r.last_action
  /\ UNCHANGED <<users, now, check_ip, client, tv, saved, raw_addr,
                 max_idle_time>>

\* select() returns with tun_fd readable: tunnel_tun.  tun_fd is in the
\* set only while some user can take a packet.
TunnelTun ==
  /\ pc = "select"
  /\ ~all_users_waiting_to_send(users, now)
  /\ \E p \in TunPkts(client) :
       LET r == tunnel_tun(users, p, now)
       IN users' = r.users /\ out' = r.out
  /\ pc' = "dns"
  /\ UNCHANGED <<now, check_ip, client, tv, saved, raw_addr,
                 running, last_action, max_idle_time>>

\* FD_ISSET(v4fd): tunnel_dns reads one query; at "select" the tun device
\* was not readable
TunnelDns ==
  /\ pc \in {"select", "dns"}
  /\ \E q \in Queries(client, now) : \E garbage \in Garbage(q) :
     \E rnd \in Rand(client, q) :
       LET r == tunnel_dns(users, q, now, check_ip, garbage, rnd)
       IN /\ users' = r.users
          /\ out' = r.out
          /\ saved' = Forget(saved, r.out)
          /\ raw_addr' = RawLoginFrom(raw_addr, q, r.out)
  /\ pc' = IF V6Open(client) THEN "dns6" ELSE "max_wait"
  /\ UNCHANGED <<now, check_ip, client, tv,
                 running, last_action, max_idle_time>>

\* FD_ISSET(v6fd): tunnel_dns reads one query from the IPv6 socket, in the
\* same iteration; at "select" and "dns" the IPv4 socket was not readable
TunnelDns6 ==
  /\ V6Open(client)
  /\ pc \in {"select", "dns", "dns6"}
  /\ \E q \in Queries(client, now) : \E garbage \in Garbage(q) :
     \E rnd \in Rand(client, q) :
       LET r == tunnel_dns(users, q, now, check_ip, garbage, rnd)
       IN /\ users' = r.users
          /\ out' = r.out
          /\ saved' = Forget(saved, r.out)
          /\ raw_addr' = RawLoginFrom(raw_addr, q, r.out)
  /\ pc' = "max_wait"
  /\ UNCHANGED <<now, check_ip, client, tv,
                 running, last_action, max_idle_time>>

\* the IPv6 socket was not readable in this iteration
Dns6NotReady ==
  /\ pc = "dns6"
  /\ pc' = "max_wait"
  /\ UNCHANGED <<users, now, check_ip, client, tv, out, saved, raw_addr,
                 running, last_action, max_idle_time>>

\* only the tun device was readable in this iteration
DnsNotReady ==
  /\ pc = "dns"
  /\ pc' = "max_wait"
  /\ out' = <<>>
  /\ UNCHANGED <<users, now, check_ip, client, tv, saved, raw_addr,
                 running, last_action, max_idle_time>>

Next ==
  \/ QmemMaxWait
  \/ Tick
  \/ SelectTimeout
  \/ TunnelTun
  \/ TunnelDns
  \/ DnsNotReady
  \/ TunnelDns6
  \/ Dns6NotReady

Spec == Init /\ [][Next]_vars

\* server_tunnel run with max_idle_time = MaxIdle for the client that uses
\* both sockets and the tun device.  The loop never stops by itself (every
\* step of it is taken once it can be) and time passes while select() waits;
\* which descriptors are ready, and whether select() ever times out, is up to
\* the peers.
IdleInit == Start({"dual"}, MaxIdle)

IdleSpec == IdleInit /\ [][Next]_vars /\ WF_vars(Next) /\ SF_vars(Tick)

(***************************************************************************)
(* Properties                                                              *)
(***************************************************************************)
\* the slots holding the stored entries of a ring: length slots from start
StoredSlots(buf) == {(buf.start + k) % QMEM_LEN : k \in 0 .. (buf.length - 1)}

\* the slots holding the pending entries: num_pending slots from start_pending
PendingSlots(buf) ==
  {(buf.start_pending + k) % QMEM_LEN : k \in 0 .. (buf.num_pending - 1)}

\* the answers of a sequence of sent messages that go to user u, in order
AnswersTo(o, u) ==
  SelectSeq(o, LAMBDA a : a.kind = "dns" /\ a.q.name.uid = u)

\* C1: in every reachable qmem state, qmem_append of a query whose
\* (id, type, name) equals a stored entry's leaves the ring unchanged, sends
\* exactly one 'x' answer with encoding 'T' and returns 0.
C1_QmemDedup ==
  \A u \in Users : \A q \in Queries(client, now) :
    LET buf == users[u].qmem
        r == qmem_append(buf, q)
    IN (\E p \in StoredSlots(buf) : SameQuery(buf.queries[p], q))
       => /\ r.ret = 0
          /\ r.buf = buf
          /\ r.out = <<Answer(q, Text("x"), "T")>>

\* C2: on entry to qmem_max_wait, an active lazy user with
\* num_pending > outgoing.windowsize is sent at least one response by that
\* call and has fewer pending queries on return.
C2_QmemBudget ==
  pc = "max_wait" =>
    \A u \in Users :
      LET usr == users[u]
          r == qmem_max_wait(users, now)
      IN (/\ user_active(usr, now)
          /\ usr.lazy
          /\ usr.qmem.num_pending > usr.outgoing.windowsize)
         => /\ Len(AnswersTo(r.out, u)) >= 1
            /\ r.users[u].qmem.num_pending < usr.qmem.num_pending

\* C3 as stated: after a hit of answer_from_dnscache for q, an immediate
\* second lookup of a query with the same (type, name) misses and sends
\* nothing.
C3_CacheHitOnce ==
  \A u \in Users : \A q \in Queries(client, now) :
    LET r1 == answer_from_dnscache(users[u], q)
    IN r1.ret = 1 =>
         \A q2 \in Queries(client, now) :
           (q2.type = q.type /\ q2.name = q.name) =>
             LET r2 == answer_from_dnscache(r1.u, q2)
             IN r2.ret = 0 /\ r2.out = <<>>

\* C3: a hit of answer_from_dnscache for q clears the id of the incoming
\* query only and leaves the cache unchanged, so an immediate second lookup
\* of a query with the same (type, name) hits again, re-sends the same
\* stored bytes, and the repeated query is dropped before qmem_append.
C3_CacheHitRepeats ==
  \A u \in Users : \A q \in Queries(client, now) :
    LET r1 == answer_from_dnscache(users[u], q)
    IN r1.ret = 1 =>
         /\ r1.qid = 0
         /\ r1.u = users[u]
         /\ \A q2 \in Queries(client, now) :
              (q2.type = q.type /\ q2.name = q.name) =>
                LET r2 == answer_from_dnscache(r1.u, q2)
                    g == CacheThenQmem(r1.u, q2)
                IN /\ r2.ret = 1
                   /\ Len(r2.out) = 1
                   /\ r2.out[1].data = r1.out[1].data
                   /\ ~g.go
                   /\ g.u.qmem = users[u].qmem

\* tunnel_dns has just answered a query from the cache, and the same query
\* would hit again
C3_Witness ==
  /\ pc = "max_wait"
  /\ Len(out) = 1
  /\ out[1].data.txt = "pkt"
  /\ \E q \in Queries(client, now) :
       /\ QKey(q) = out[1].q
       /\ answer_from_dnscache(users[q.name.uid], q).ret = 1

\* C4: when a data-fragment query (id # 0) of an authenticated lazy user
\* arrives again while its first copy is still pending in qmem (and is not
\* answered from the cache), it is answered with the one-byte 'x' ('T'
\* encoding) and the user's qmem is left unchanged.
C4_DuplicateFragment ==
  pc \in {"select", "dns"} =>
    \A q \in Queries(client, now) : \A garbage \in Garbage(q) :
    \A rnd \in Rand(client, q) :
      LET u == q.name.uid
          usr == users[u]
          r == handle_null_request(users, q, now, check_ip, garbage, rnd)
      IN (/\ q.name.cmd = "D"
          /\ q.id # 0
          /\ check_authenticated_user_and_ip(users, u, q, now, check_ip) = 0
          /\ usr.lazy
          /\ answer_from_dnscache(usr, q).ret = 0
          /\ \E p \in PendingSlots(usr.qmem) : SameQuery(usr.qmem.queries[p], q))
         => /\ r.out = <<Answer(q, Text("x"), "T")>>
            /\ r.users[u].qmem = usr.qmem

\* C5: a qmem_max_wait call made at or after time_recv + dns_timeout of a
\* pending query of an active lazy user sends a data or ping response for
\* that query, whatever the number of pending queries.
C5_TimeoutAnswered ==
  pc = "max_wait" =>
    \A u \in Users :
      LET usr == users[u]
          r == qmem_max_wait(users, now)
      IN (user_active(usr, now) /\ usr.lazy) =>
           \A p \in PendingSlots(usr.qmem) :
             now >= usr.qmem.queries[p].time_recv + usr.dns_timeout =>
               \E i \in 1 .. Len(r.out) :
                 /\ r.out[i].q = QKey(usr.qmem.queries[p])
                 /\ r.out[i].data.txt = "pkt"

\* C6: a P or data query of an authenticated user with lazy = false is
\* answered while it is handled, so num_pending is the same when
\* handle_null_request returns, and the user never sets the deadline
\* qmem_max_wait returns.
C6_NonLazyImmediate ==
  pc \in {"select", "dns"} =>
    \A q \in Queries(client, now) : \A garbage \in Garbage(q) :
    \A rnd \in Rand(client, q) :
      LET u == q.name.uid
          usr == users[u]
          r == handle_null_request(users, q, now, check_ip, garbage, rnd)
      IN (/\ q.name.cmd \in {"P", "D"}
          /\ q.id # 0
          /\ check_authenticated_user_and_ip(users, u, q, now, check_ip) = 0
          /\ ~usr.lazy)
         => /\ r.users[u].qmem.num_pending = usr.qmem.num_pending
            /\ qmem_max_wait(r.users, now).tv.touser # u

\* C7: every user's qmem satisfies 0 <= num_pending <= length <= QMEM_LEN,
\* (start_pending + num_pending) mod QMEM_LEN = end and
\* (start + length) mod QMEM_LEN = end.
C7_QmemShape ==
  \A u \in Users :
    LET buf == users[u].qmem
    IN /\ 0 <= buf.num_pending
       /\ buf.num_pending <= buf.length
       /\ buf.length <= QMEM_LEN
       /\ (buf.start_pending + buf.num_pending) % QMEM_LEN = buf.end
       /\ (buf.start + buf.length) % QMEM_LEN = buf.end

\* a ring that has filled, dropped its oldest entry and holds both answered
\* and pending queries
C7_Witness ==
  \E u \in Users :
    LET buf == users[u].qmem
    IN /\ buf.length = QMEM_LEN
       /\ buf.start # 0
       /\ buf.num_pending > 0
       /\ buf.num_pending < QMEM_LEN

\* C8: the responses one qmem_max_wait call sends to a user through
\* send_data_or_ping answer that user's pending queries in order from
\* start_pending, one query per response, and start_pending and num_pending
\* move by exactly the number of responses sent.
C8_AnswersOldestPending ==
  pc = "max_wait" =>
    \A u \in Users :
      LET buf == users[u].qmem
          r == qmem_max_wait(users, now)
          sent == AnswersTo(r.out, u)
      IN /\ Len(sent) <= buf.num_pending
         /\ \A i \in 1 .. Len(sent) :
              sent[i].q = QKey(buf.queries[(buf.start_pending + i - 1) % QMEM_LEN])
         /\ r.users[u].qmem.num_pending = buf.num_pending - Len(sent)
         /\ r.users[u].qmem.start_pending =
              (buf.start_pending + Len(sent)) % QMEM_LEN

\* the conditions under which a lazy user's pending queries are to be held
Held(usr, t) ==
  /\ user_active(usr, t)
  /\ usr.lazy
  /\ usr.qmem.num_pending > 0
  /\ window_sending(usr.outgoing) = 0
  /\ usr.next_upstream_ack < 0
  /\ ~usr.send_ping_next
  /\ usr.qmem.num_pending <= usr.outgoing.windowsize
  /\ \A p \in PendingSlots(usr.qmem) :
       t < usr.qmem.queries[p].time_recv + usr.dns_timeout

\* C9: for an active lazy user with pending queries, no fragment to send,
\* no pending ack or ping, num_pending <= windowsize and no pending query at
\* its timeout, qmem_max_wait sends the user nothing and leaves its qmem and
\* answer cache (the whole user record) unchanged.
C9_LazyHolds ==
  pc = "max_wait" =>
    \A u \in Users :
      LET r == qmem_max_wait(users, now)
      IN Held(users[u], now) =>
           /\ AnswersTo(r.out, u) = <<>>
           /\ r.users[u] = users[u]

\* qmem_max_wait has just run for a user whose queries are held: nothing was
\* sent and the deadline it returned is that user's oldest pending query
C9_Witness ==
  /\ pc = "select"
  /\ out = <<>>
  /\ \E u \in Users :
       /\ Held(users[u], now)
       /\ tv.touser = u
       /\ tv.sendq = QKey(users[u].qmem.queries[users[u].qmem.start_pending])

\* C10: a P or data query (id # 0, not in the ring, not in the cache) of an
\* authenticated user with num_pending = QMEM_LEN is not stored, gets no
\* answer and changes none of next_upstream_ack, send_ping_next, dns_timeout
\* and the outgoing window.
C10_FullRefuses ==
  pc \in {"select", "dns"} =>
    \A q \in Queries(client, now) : \A garbage \in Garbage(q) :
    \A rnd \in Rand(client, q) :
      LET u == q.name.uid
          usr == users[u]
          r == handle_null_request(users, q, now, check_ip, garbage, rnd)
      IN (/\ q.name.cmd \in {"P", "D"}
          /\ q.id # 0
          /\ check_authenticated_user_and_ip(users, u, q, now, check_ip) = 0
          /\ usr.qmem.num_pending = QMEM_LEN
          /\ answer_from_dnscache(usr, q).ret = 0
          /\ \A p \in StoredSlots(usr.qmem) : ~SameQuery(usr.qmem.queries[p], q))
         => /\ r.out = <<>>
            /\ r.users[u].qmem = usr.qmem
            /\ r.users[u].next_upstream_ack = usr.next_upstream_ack
            /\ r.users[u].send_ping_next = usr.send_ping_next
            /\ r.users[u].dns_timeout = usr.dns_timeout
            /\ r.users[u].outgoing = usr.outgoing

\* C11: a P or data query (id # 0) of an authenticated user that hits the
\* answer cache is answered with the stored bytes and dropped: no user state
\* changes (qmem, windows, next_upstream_ack, send_ping_next, dns_timeout
\* and last_pkt included), so qmem_append is reached only on a miss.
C11_CacheBeforeQmem ==
  pc \in {"select", "dns"} =>
    \A q \in Queries(client, now) : \A garbage \in Garbage(q) :
    \A rnd \in Rand(client, q) :
      LET u == q.name.uid
          usr == users[u]
          c == answer_from_dnscache(usr, q)
          r == handle_null_request(users, q, now, check_ip, garbage, rnd)
      IN (/\ q.name.cmd \in {"P", "D"}
          /\ q.id # 0
          /\ check_authenticated_user_and_ip(users, u, q, now, check_ip) = 0
          /\ c.ret = 1)
         => /\ r.users = users
            /\ Len(r.out) = 1
            /\ r.out[1].kind = "dns"
            /\ r.out[1].q = QKey(q)
            /\ r.out[1].enc = usr.downenc
            /\ \E i \in 0 .. (DNSCACHE_LEN - 1) :
                 /\ CacheMatch(usr, i, q)
                 /\ r.out[1].data = usr.dnscache_answer[i]

\* tunnel_dns has just answered a P or data query from the cache although the
\* ring had room for it and held no entry with its id: qmem_append would have
\* stored it
C11_Witness ==
  /\ pc = "max_wait"
  /\ Len(out) = 1
  /\ out[1].data.txt = "pkt"
  /\ out[1].q.name.cmd \in {"P", "D"}
  /\ LET usr == users[out[1].q.name.uid]
     IN /\ usr.qmem.num_pending < QMEM_LEN
        /\ \A p \in 0 .. (QMEM_LEN - 1) : usr.qmem.queries[p].id # out[1].q.id
        /\ \A i \in 0 .. (DNSCACHE_LEN - 1) : usr.dnscache_q[i].id # out[1].q.id

\* the positions of history h whose entry has the (type, name) of query q
SavedFor(h, q) ==
  {i \in 1 .. Len(h) : h[i].type = q.type /\ h[i].name = q.name}

\* C12: whatever answers were saved for a user, answer_from_dnscache(q) hits
\* exactly when one of the last DNSCACHE_LEN saved answers belongs to a query
\* with q's (type, name), whatever the ids, and it re-sends the bytes of the
\* most recent such answer; an answer saved longer ago is never returned.
C12_CacheIsRecentSaves ==
  \A u \in Users : \A q \in Queries(client, now) :
    LET c == answer_from_dnscache(users[u], q)
        m == SavedFor(saved[u], q)
    IN /\ c.ret = 1 <=> m # {}
       /\ c.ret = 1 =>
            /\ Len(c.out) = 1
            /\ c.out[1].data = saved[u][CHOOSE i \in m : \A j \in m : j <= i].data
       /\ c.ret = 0 => c.out = <<>>

\* the cache has wrapped around (three saves or more), its two latest answers
\* belong to two queries of one name, and the answer to a third name, whose
\* query is still in the ring, was displaced
C12_Witness ==
  \E u \in Users :
    /\ Len(saved[u]) = DNSCACHE_LEN
    /\ users[u].dnscache_lastfilled = 1
    /\ saved[u][1].name = saved[u][2].name
    /\ saved[u][1].id # saved[u][2].id
    /\ \E q \in Queries(client, now) :
         /\ q.name.cmd \in {"P", "D"}
         /\ q.name # saved[u][1].name
         /\ \E p \in StoredSlots(users[u].qmem) :
              /\ p \notin PendingSlots(users[u].qmem)
              /\ users[u].qmem.queries[p].name = q.name
         /\ answer_from_dnscache(users[u], q).ret = 0

\* the k-th pending query of user record usr, counted from start_pending
PendingAt(usr, k) == usr.qmem.queries[(usr.qmem.start_pending + k) % QMEM_LEN]

\* whether the answers o leave the k-th pending query of usr unanswered: o
\* holds fewer answers to its (id, type, name) than there are pending queries
\* with that key up to it
Unanswered(usr, o, k) ==
  Cardinality({i \in 1 .. Len(o) : o[i].q = QKey(PendingAt(usr, k))})
    < Cardinality({j \in 0 .. k :
                     QKey(PendingAt(usr, j)) = QKey(PendingAt(usr, k))})

\* the time left, at time t, for each query of an active lazy user that was
\* pending in table us and got no answer in o
Deadlines(us, o, t) ==
  {PendingAt(us[x[1]], x[2]).time_recv + us[x[1]].dns_timeout - t :
     x \in {y \in Users \X (0 .. (QMEM_LEN - 1)) :
              /\ user_active(us[y[1]], t)
              /\ us[y[1]].lazy
              /\ y[2] < us[y[1]].qmem.num_pending
              /\ Unanswered(us[y[1]], o, y[2])}}

\* C13: qmem_max_wait returns the least time left over the queries of active
\* lazy users that are pending and not answered by the call, or the default
\* of 10 s when there is none or the least is not below 10 s; the wait is
\* positive and at most 10 s; touser is -1 and sendq is null exactly when the
\* wait is the default, and otherwise they name a query with that deadline.
C13_MaxWaitIsSoonest ==
  pc = "max_wait" =>
    LET r == qmem_max_wait(users, now)
        d == Deadlines(users, r.out, now)
        least == IF d = {} THEN DefaultWait
                 ELSE Min(DefaultWait, CHOOSE x \in d : \A y \in d : x <= y)
    IN /\ r.tv.wait = least
       /\ r.tv.wait > 0
       /\ r.tv.wait <= DefaultWait
       /\ (r.tv.touser = -1) <=> (r.tv.wait = DefaultWait)
       /\ (r.tv.sendq = NoWait.sendq) <=> (r.tv.wait = DefaultWait)
       /\ r.tv.touser # -1 =>
            \E p \in PendingSlots(users[r.tv.touser].qmem) :
              /\ QKey(users[r.tv.touser].qmem.queries[p]) = r.tv.sendq
              /\ users[r.tv.touser].qmem.queries[p].time_recv
                   + users[r.tv.touser].dns_timeout - now = r.tv.wait

\* the commands whose query carries a userid
UidCmds == {"L", "I", "S", "O", "R", "N", "P", "D"}

\* C14 as stated: with check_ip on, a query carrying the userid of an active
\* user whose source differs from the address recorded for it changes no user and is
\* answered with BADIP or not at all; with check_ip off it is handled as the
\* same query from the recorded address is.
C14_ForeignSourceBadip ==
  pc \in {"select", "dns"} =>
    \A q \in Queries(client, now) : \A garbage \in Garbage(q) :
    \A rnd \in Rand(client, q) :
      LET u == q.name.uid
          r == handle_null_request(users, q, now, check_ip, garbage, rnd)
          home == [q EXCEPT !.from = users[u].host]
      IN (/\ q.name.cmd \in UidCmds
          /\ user_active(users[u], now)
          /\ q.from # users[u].host)
         => IF check_ip
            THEN /\ r.users = users
                 /\ r.out \in {<<>>, <<Answer(q, Text("BADIP"), "T")>>}
            ELSE r = handle_null_request(users, home, now, check_ip, garbage, rnd)

\* C14: with check_ip on, a query carrying the userid of an active user whose
\* source differs from the address recorded for it changes no user and is answered
\* with BADIP, with BADLEN when it is too short for its command (the length
\* is tested before the address), or not at all; with check_ip off it is
\* handled as the same query from the recorded address is.
C14_ForeignSourceRejected ==
  pc \in {"select", "dns"} =>
    \A q \in Queries(client, now) : \A garbage \in Garbage(q) :
    \A rnd \in Rand(client, q) :
      LET u == q.name.uid
          r == handle_null_request(users, q, now, check_ip, garbage, rnd)
          home == [q EXCEPT !.from = users[u].host]
      IN (/\ q.name.cmd \in UidCmds
          /\ user_active(users[u], now)
          /\ q.from # users[u].host)
         => IF check_ip
            THEN /\ r.users = users
                 /\ r.out \in {<<>>, <<Answer(q, Text("BADIP"), "T")>>,
                               <<Answer(q, Text("BADLEN"), "T")>>}
                 /\ r.out = <<Answer(q, Text("BADLEN"), "T")>>
                      => (q.name.cmd = "L" /\ q.name.b < 17)
            ELSE r = handle_null_request(users, home, now, check_ip, garbage, rnd)

\* with check_ip on, a data query for an active, authenticated user has just
\* been refused with BADIP: it came from another address than the recorded one
C14_Witness ==
  /\ pc = "max_wait"
  /\ check_ip
  /\ Len(out) = 1
  /\ out[1] = Answer(out[1].q, Text("BADIP"), "T")
  /\ out[1].q.name.cmd = "D"
  /\ LET usr == users[out[1].q.name.uid]
     IN user_active(usr, now) /\ usr.authenticated /\ usr.host \in RoamAddrs

\* C15: while a user's authenticated flag is false, every I, S, O, R, N, P
\* and data query and every raw DATA or PING packet carrying its userid
\* leaves the whole user table unchanged, writes nothing to the tun device
\* and sends nothing over the raw channel (only DNS answers go out).
C15_UnauthenticatedInert ==
  pc \in {"select", "dns"} =>
    \A q \in Queries(client, now) : \A garbage \in Garbage(q) :
    \A rnd \in Rand(client, q) :
      LET r == tunnel_dns(users, q, now, check_ip, garbage, rnd)
      IN (/\ q.name.cmd \in {"I", "S", "O", "R", "N", "P", "D", "rawdata",
                             "rawping"}
          /\ ~users[q.name.uid].authenticated)
         => /\ r.users = users
            /\ \A i \in 1 .. Len(r.out) : r.out[i].kind = "dns"

\* a server that does not check addresses has just refused, with BADIP, a
\* data query for an active user that has not logged in
C15_Witness ==
  /\ pc = "max_wait"
  /\ ~check_ip
  /\ Len(out) = 1
  /\ out[1] = Answer(out[1].q, Text("BADIP"), "T")
  /\ out[1].q.name.cmd = "D"
  /\ out[1].q.name.pkt # NoPkt
  /\ LET usr == users[out[1].q.name.uid]
     IN user_active(usr, now) /\ ~usr.authenticated

C17_VersionRefused ==
  pc \in {"select", "dns"} =>
    \A q \in Queries(client, now) : \A garbage \in Garbage(q) :
    \A rnd \in Rand(client, q) :
      LET r == handle_null_request(users, q, now, check_ip, garbage, rnd)
          good == q.name.b > 4 /\ q.name.a = PROTOCOL_VERSION
          full == find_available_user(users, now) < 0
      IN q.name.cmd = "V" =>
           /\ ~good =>
                /\ r.users = users
                /\ Len(r.out) = 1
                /\ r.out[1].kind = "dns"
                /\ r.out[1].q = QKey(q)
                /\ r.out[1].data.txt = "VNAK"
                /\ r.out[1].data.payload = PROTOCOL_VERSION
           /\ (good /\ full) =>
                /\ r.users = users
                /\ Len(r.out) = 1
                /\ r.out[1].kind = "dns"
                /\ r.out[1].q = QKey(q)
                /\ r.out[1].data.txt = "VFUL"
                /\ r.out[1].data.payload = USERS

\* a VFUL has just been sent: every slot is held by an active user, and one
\* of them is logged in
C17_Witness ==
  /\ pc = "max_wait"
  /\ Len(out) = 1
  /\ out[1].data.txt = "VFUL"
  /\ out[1].data.payload = USERS
  /\ \A u \in Users : user_active(users[u], now)
  /\ \E u \in Users : users[u].authenticated

\* C18: an L query that is long enough and passes the user and address check
\* sets the user's authenticated flag and is answered with the login reply
\* exactly when the 16 bytes after the userid are the digest of the password
\* and the slot's current seed; otherwise it is answered LNAK and the flag
\* keeps its value.
C18_LoginIffDigest ==
  pc \in {"select", "dns"} =>
    \A q \in Queries(client, now) : \A garbage \in Garbage(q) :
    \A rnd \in Rand(client, q) :
      LET u == q.name.uid
          r == handle_null_request(users, q, now, check_ip, garbage, rnd)
      IN (/\ q.name.cmd = "L"
          /\ q.name.b >= 17
          /\ check_user_and_ip(users, u, q, now, check_ip) = 0)
         => IF q.name.a = login_calculate(users[u].seed)
            THEN /\ r.users[u].authenticated
                 /\ r.out = <<Answer(q, Text("LOGIN"), users[u].downenc)>>
            ELSE /\ r.users[u].authenticated = users[u].authenticated
                 /\ r.out = <<Answer(q, Text("LNAK"), "T")>>

\* C19: an S query of an authenticated user with codec id 5, 6, 26 or 7
\* switches the user's upstream encoder to base32, base64, base64u or
\* base128, changes nothing else and is answered with the encoder's name;
\* a data fragment received next is decoded with that encoder, so its packet
\* reaches the tun device intact when the client encoded it the same way and
\* as other bytes when the client used an encoder of another width.  Any
\* other codec id is answered BADCODEC and changes nothing.
C19_SwitchCodec ==
  pc \in {"select", "dns"} =>
    \A q \in Queries(client, now) : \A garbage \in Garbage(q) :
    \A rnd \in Rand(client, q) :
      LET u == q.name.uid
          usr == users[u]
          r == handle_null_request(users, q, now, check_ip, garbage, rnd)
          enc == CASE q.name.a = 5 -> "base32"
                   [] q.name.a = 6 -> "base64"
                   [] q.name.a = 26 -> "base64u"
                   [] q.name.a = 7 -> "base128"
                   [] OTHER -> "none"
      IN (/\ q.name.cmd = "S"
          /\ check_authenticated_user_and_ip(users, u, q, now, check_ip) = 0)
         => IF enc = "none"
            THEN /\ r.users = users
                 /\ r.out = <<Answer(q, Text("BADCODEC"), usr.downenc)>>
            ELSE /\ r.users = [users EXCEPT ![u].encoder = enc]
                 /\ r.out = <<Answer(q, Text(enc), usr.downenc)>>
                 /\ \A d \in Queries(client, now) :
                      LET r2 == handle_null_request(r.users, d, now, check_ip,
                                                    -1, 0)
                      IN (/\ d.name.cmd = "D" /\ d.name.uid = u /\ d.id # 0
                          /\ d.name.pkt # NoPkt /\ d.name.b = 0
                          /\ d.from = q.from
                          /\ CacheThenQmem(r.users[u], d).go)
                         => /\ Len(r2.out) = 1
                            /\ r2.out[1].kind = "tun"
                            /\ r2.out[1].data.len =
                                 unpack_data(d.name.pkt, d.name.enc, enc).raw
                            /\ d.name.enc = enc
                                 => r2.out[1] = TunWrite(d.name.pkt.raw)
                            /\ EncBits(d.name.enc) # EncBits(enc)
                                 => r2.out[1] # TunWrite(d.name.pkt.raw)

\* a data fragment the client encoded with base64u has just been written to
\* the tun device intact, by a user whose encoder was switched to base64u
C19_Witness ==
  /\ pc = "max_wait"
  /\ \E u \in Users : \E p \in UpPkts :
       /\ users[u].encoder = "base64u"
       /\ out = <<TunWrite(p.raw)>>
       /\ \E i \in StoredSlots(users[u].qmem) :
            /\ users[u].qmem.queries[i].name.cmd = "D"
            /\ users[u].qmem.queries[i].name.enc = "base64u"
            /\ users[u].qmem.queries[i].name.pkt = p
            /\ users[u].qmem.queries[i].time_recv = now

\* the user tables that can reach the next qmem_max_wait when table us is
\* left by a query handled on the IPv4 socket: us itself, or, with an IPv6
\* socket, us after one more query of the same loop iteration
BeforeMaxWait(us, c, t, cip) ==
  {us} \cup
  IF V6Open(c)
  THEN {tunnel_dns(us, x[1], t, cip, x[2], x[3]).users :
          x \in {y \in Queries(c, t) \X (Users \cup {-1}) \X (Seeds(c) \cup {0}) :
                   y[2] \in Garbage(y[1]) /\ y[3] \in Rand(c, y[1])}}
  ELSE {}

\* C20: when a P with the respond flag of an authenticated lazy user is
\* stored in qmem, then, whatever query is handled before the loop comes
\* back to qmem_max_wait, that call (made at the time the P arrived, so
\* before its timeout) sends the user a response, and the first response it
\* sends has the ping flag set, so it carries the four window bytes.
C20_PingResponseNext ==
  pc \in {"select", "dns"} =>
    \A q \in Queries(client, now) :
      LET u == q.name.uid
          usr == users[u]
          r == tunnel_dns(users, q, now, check_ip, -1, 0)
      IN (/\ q.name.cmd = "P" /\ q.name.a = 1 /\ q.id # 0
          /\ check_authenticated_user_and_ip(users, u, q, now, check_ip) = 0
          /\ usr.lazy
          /\ CacheThenQmem(usr, q).go
          /\ usr.qmem.num_pending < QMEM_LEN)
         => \A us \in BeforeMaxWait(r.users, client, now, check_ip) :
              LET sent == AnswersTo(qmem_max_wait(us, now).out, u)
              IN /\ Len(sent) >= 1
                 /\ sent[1].data.txt = "pkt"
                 /\ sent[1].data.ping = 1

\* whether handle_null_request gets as far as storing the ack of data
\* fragment q of user record usr: the query is accepted, misses the answer
\* cache and passes qmem_append
Processed(us, q, t, cip) ==
  /\ q.name.cmd = "D"
  /\ q.id # 0
  /\ check_authenticated_user_and_ip(us, q.name.uid, q, t, cip) = 0
  /\ CacheThenQmem(us[q.name.uid], q).go

\* C21: whenever a data fragment is processed next_upstream_ack is -1
\* beforehand; a response of qmem_max_wait's send_data_or_ping to a user with
\* a stored ack carries it (ack-valid, ack byte equal to it), and after every
\* such response next_upstream_ack is -1.
C21_AckCarried ==
  /\ pc \in {"select", "dns"} =>
       \A q \in Queries(client, now) :
         Processed(users, q, now, check_ip) =>
           users[q.name.uid].next_upstream_ack = -1
  /\ pc = "max_wait" =>
       \A u \in Users :
         LET r == qmem_max_wait(users, now)
             sent == AnswersTo(r.out, u)
         IN Len(sent) >= 1 =>
              /\ r.users[u].next_upstream_ack = -1
              /\ users[u].next_upstream_ack >= 0 =>
                   sent[1].data.ack = users[u].next_upstream_ack

\* the IP packet tunnel_dns hands to handle_full_packet for packet q, NoPkt
\* when q is not accepted or completes no packet
FullPacket(us, q, t, cip) ==
  IF Processed(us, q, t, cip)
  THEN unpack_data(q.name.pkt, q.name.enc, us[q.name.uid].encoder)
  ELSE IF /\ q.type = "RAW" /\ q.name.cmd = "rawdata"
          /\ check_authenticated_user_and_ip(us, q.name.uid, q, t, cip) = 0
          /\ us[q.name.uid].authenticated_raw
  THEN q.name.pkt
  ELSE NoPkt

\* whether the messages o hold a write to the tun device
WritesTun(o) == \E i \in 1 .. Len(o) : o[i].kind = "tun"

\* C22: every reassembled upstream IP packet, compressed or not, goes to
\* exactly one destination chosen by its destination address: to the user
\* that owns the address (queued in that user's outgoing window or sent raw,
\* and not written to tun), or to the tun device when no user owns it.
C22_RoutedByDestination ==
  pc \in {"select", "dns"} =>
    \A q \in Queries(client, now) : \A garbage \in Garbage(q) :
      LET p == FullPacket(users, q, now, check_ip)
          r == tunnel_dns(users, q, now, check_ip, garbage, 0)
          to == find_user_by_ip(users, p.dst, now)
      IN (p # NoPkt /\ p.dst >= -1) =>
           IF to = -1
           THEN /\ r.out = <<TunWrite(p.raw)>>
                /\ \A u \in Users : r.users[u].outgoing = users[u].outgoing
           ELSE /\ ~WritesTun(r.out)
                /\ \/ r.users[to].outgoing.frags # users[to].outgoing.frags
                   \/ \E i \in 1 .. Len(r.out) :
                        r.out[i].kind = "raw" /\ r.out[i].q.id = to

\* whether the messages o hold tunnel payload sent with send_raw to user u
RawPayloadTo(o, u) ==
  \E i \in 1 .. Len(o) :
    o[i].kind = "raw" /\ o[i].q.id = u /\ o[i].data.txt = "pkt"

\* the DNS answers among the messages o that carry fragment bytes
PayloadAnswers(o) ==
  SelectSeq(o, LAMBDA a : a.kind = "dns" /\ a.data.txt = "pkt" /\ a.data.len > 0)

\* C23: for a user with conn = DNS_NULL tunnel payload is never sent with
\* send_raw: a packet for the user is only queued in its outgoing window, and
\* fragment bytes leave the server only in a response send_data_or_ping
\* builds, during qmem_max_wait, from the head of the user's window as the
\* answer to a query pending in that user's qmem (or as the stored copy of
\* such a response, re-sent from that user's answer cache).
C23_DnsNullPayloadInAnswers ==
  /\ pc = "select" =>
       \A p \in TunPkts(client) :
         LET r == tunnel_tun(users, p, now)
         IN \A u \in Users :
              users[u].conn = "DNS_NULL" =>
                /\ ~RawPayloadTo(r.out, u)
                /\ PayloadAnswers(r.out) = <<>>
  /\ pc \in {"select", "dns"} =>
       \A q \in Queries(client, now) : \A garbage \in Garbage(q) :
       \A rnd \in Rand(client, q) :
         LET r == tunnel_dns(users, q, now, check_ip, garbage, rnd)
             sent == PayloadAnswers(r.out)
         IN /\ \A u \in Users :
                 users[u].conn = "DNS_NULL" => ~RawPayloadTo(r.out, u)
            /\ \A i \in 1 .. Len(sent) :
                 /\ sent[i].q = QKey(q)
                 /\ \E k \in 0 .. (DNSCACHE_LEN - 1) :
                      /\ CacheMatch(users[q.name.uid], k, q)
                      /\ users[q.name.uid].dnscache_answer[k] = sent[i].data
  /\ pc = "max_wait" =>
       LET r == qmem_max_wait(users, now)
       IN \A u \in Users :
            LET sent == PayloadAnswers(AnswersTo(r.out, u))
                frags == users[u].outgoing.frags
                buf == users[u].qmem
            IN /\ ~RawPayloadTo(r.out, u)
               /\ Len(sent) <= Len(frags)
               /\ \A i \in 1 .. Len(sent) :
                    /\ sent[i].data.len = frags[i].len
                    /\ sent[i].data.comp = frags[i].comp
                    /\ \E s \in PendingSlots(buf) :
                         sent[i].q = QKey(buf.queries[s])

\* qmem_max_wait has just sent a fragment of a packet from the tun device to
\* a DNS_NULL user, in answer to a query that user had pending
C23_Witness ==
  /\ pc = "select"
  /\ \E i \in 1 .. Len(out) :
       /\ out[i].kind = "dns"
       /\ out[i].data.txt = "pkt"
       /\ out[i].data.len > 0
       /\ users[out[i].q.name.uid].conn = "DNS_NULL"
       /\ out[i].q.name.cmd \in {"P", "D"}

\* C24: a raw LOGIN sets authenticated_raw and conn = RAW_UDP (or changes
\* anything, or is answered) only if the user has authenticated over DNS and
\* the packet carries the digest of seed + 1; and every DNS-authenticated user
\* presenting that digest is granted raw login and answered with the digest
\* of seed - 1, also when the packet comes from the address of its DNS
\* queries.
C24_RawLoginAfterDns ==
  pc \in {"select", "dns"} =>
    \A q \in Queries(client, now) :
      LET u == q.name.uid
          usr == users[u]
          r == tunnel_dns(users, q, now, check_ip, -1, 0)
      IN (q.type = "RAW" /\ q.name.cmd = "rawlogin") =>
           /\ (r.users # users \/ r.out # <<>>) =>
                /\ user_active(usr, now) /\ usr.authenticated
                /\ q.name.a = login_calculate(usr.seed + 1)
           /\ (/\ user_active(usr, now) /\ usr.authenticated
               /\ q.name.b >= 16
               /\ q.name.a = login_calculate(usr.seed + 1))
              => /\ r.users[u].authenticated_raw
                 /\ r.users[u].conn = "RAW_UDP"
                 /\ r.out = <<RawReply(u, "LOGIN",
                                       login_calculate(usr.seed - 1))>>

\* C25: a raw DATA packet is routed through handle_full_packet, and a raw
\* PING is echoed, if and only if the user is authenticated (its slot in use
\* and logged in), has authenticated_raw set and, when check_ip is on, the
\* packet's source is the address recorded at raw login; every other raw
\* DATA or PING packet is dropped with no reply and no state change.
C25_RawDataPingGuard ==
  pc \in {"select", "dns"} =>
    \A q \in Queries(client, now) :
      LET u == q.name.uid
          usr == users[u]
          r == tunnel_dns(users, q, now, check_ip, -1, 0)
          seen == [users EXCEPT ![u].last_pkt = now]
      IN (q.type = "RAW" /\ q.name.cmd \in {"rawdata", "rawping"}) =>
           IF /\ user_active(usr, now) /\ usr.authenticated
              /\ usr.authenticated_raw
              /\ check_ip => q.from = raw_addr[u]
           THEN IF q.name.cmd = "rawping"
                THEN r.users = seen /\ r.out = <<RawReply(u, "PING", 0)>>
                ELSE r = handle_full_packet(seen, u, q.name.pkt, 1, -1, now)
           ELSE r.users = users /\ r.out = <<>>

\* a raw DATA packet of a user with a raw login has just been routed by
\* handle_full_packet to the user that owns its destination and sent there
\* with send_raw
C25_Witness ==
  /\ pc = "max_wait"
  /\ client = "raw"
  /\ Len(out) = 1
  /\ out[1].kind = "raw"
  /\ out[1].data.txt = "pkt"
  /\ users[out[1].q.id].authenticated_raw
  /\ raw_addr[out[1].q.id] # 0

\* C26: the fragsize of a user in use is always within 2..2047: an accepted
\* N or R request whose size is below 2 or above 2047 is answered BADFRAG and
\* leaves fragsize and outgoing.maxfraglen unchanged.
C26_FragsizeInRange ==
  /\ \A u \in Users :
       user_active(users[u], now) =>
         users[u].fragsize >= 2 /\ users[u].fragsize <= 2047
  /\ pc \in {"select", "dns"} =>
       \A q \in Queries(client, now) :
         LET u == q.name.uid
             usr == users[u]
             r == tunnel_dns(users, q, now, check_ip, -1, 0)
         IN (/\ q.name.cmd \in {"N", "R"}
             /\ check_authenticated_user_and_ip(users, u, q, now, check_ip) = 0
             /\ (q.name.a < 2 \/ q.name.a > 2047))
            => /\ r.out = <<Answer(q, Text("BADFRAG"), usr.downenc)>>
               /\ r.users[u].fragsize = usr.fragsize
               /\ r.users[u].outgoing.maxfraglen = usr.outgoing.maxfraglen

\* whether user record usr has the fragment length its fragsize and
\* downstream encoding give
FragLenFits(usr) ==
  usr.outgoing.maxfraglen =
    ((usr.fragsize * usr.downenc_bits) \div 8) - DOWNSTREAM_PING_HDR

\* C27: after every handled event each allocated user satisfies
\* outgoing.maxfraglen = fragsize * downenc_bits / 8 - DOWNSTREAM_PING_HDR for
\* its current fragsize and downenc_bits.
C27_MaxFragLen ==
  \A u \in Users : user_active(users[u], now) => FragLenFits(users[u])

\* C28: if max_idle_time > 0 and no user's last_pkt is refreshed (here: from
\* the start on, every last_pkt stays at the time the server started), the
\* event loop eventually sets running = 0, whatever tun packets and rejected
\* DNS queries keep arriving.
C28_IdleShutdown ==
  [](max_idle_time > 0 /\ \A u \in Users : users[u].last_pkt = 0)
    => <>(~running)

\* C29: qmem_append never overwrites a pending query: whenever it stores a
\* query in a ring that is full (length = QMEM_LEN), the slot it writes holds
\* the oldest entry of the ring, that entry is not pending, and every pending
\* query is still stored and pending afterwards.
C29_AppendKeepsPending ==
  \A u \in Users : \A q \in Queries(client, now) :
    LET buf == users[u].qmem
        r == qmem_append(buf, q)
    IN (buf.length = QMEM_LEN /\ r.buf # buf) =>
         /\ buf.end = buf.start
         /\ buf.end \notin PendingSlots(buf)
         /\ r.buf.queries[buf.end] = StoreQuery(q, q.time_recv)
         /\ \A p \in PendingSlots(buf) :
              /\ r.buf.queries[p] = buf.queries[p]
              /\ p \in PendingSlots(r.buf)
         /\ r.buf.start = (buf.start + 1) % QMEM_LEN
         /\ r.buf.length = QMEM_LEN

\* a full ring that has dropped an answered oldest entry: tunnel_dns has just
\* stored a query in it while an earlier query was still pending
C29_Witness ==
  /\ pc = "max_wait"
  /\ out = <<>>
  /\ \E u \in Users :
       LET buf == users[u].qmem
           last == (buf.end + QMEM_LEN - 1) % QMEM_LEN
       IN /\ buf.length = QMEM_LEN
          /\ buf.start # 0
          /\ buf.num_pending >= 2
          /\ last \in PendingSlots(buf)
          /\ buf.queries[last].time_recv = now
          /\ now > 0

OptChars == {"T", "S", "U", "V", "R", "L", "I", "C", "D"}

\* the last character of opts that is in set kind ("": none)
RECURSIVE LastOf(_, _)
LastOf(opts, kind) ==
  IF opts = <<>> THEN ""
  ELSE IF opts[Len(opts)] \in kind THEN opts[Len(opts)]
  ELSE LastOf(SubSeq(opts, 1, Len(opts) - 1), kind)

\* bits per character of a downstream encoding
DownBits(c) ==
  CASE c = "T" -> 5 [] c \in {"S", "U"} -> 6 [] c = "V" -> 7 [] OTHER -> 8

\* C30: an accepted O request is applied atomically: if any of its option
\* characters is not one of T, S, U, V, R, L, I, C, D the reply is BADCODEC
\* and the user's lazy, down_compression, downenc, downenc_bits and
\* outgoing.maxfraglen (the whole user table) are unchanged; if all are valid,
\* the last option of each kind is the one in force afterwards and the
\* options are echoed back.
C30_OptionsAtomic ==
  pc \in {"select", "dns"} =>
    \A q \in Queries(client, now) :
      LET u == q.name.uid
          usr == users[u]
          opts == SubSeq(OptStrings[q.name.a], 1, q.name.b)
          r == tunnel_dns(users, q, now, check_ip, -1, 0)
          new == r.users[u]
          enc == LastOf(opts, {"T", "S", "U", "V", "R"})
          lazy == LastOf(opts, {"L", "I"})
          comp == LastOf(opts, {"C", "D"})
      IN (/\ q.name.cmd = "O"
          /\ q.name.b \in 1 .. 9
          /\ q.name.b <= Len(OptStrings[q.name.a])
          /\ check_authenticated_user_and_ip(users, u, q, now, check_ip) = 0)
         => IF \E i \in 1 .. Len(opts) : opts[i] \notin OptChars
            THEN /\ r.out = <<Answer(q, Text("BADCODEC"), usr.downenc)>>
                 /\ r.users = users
            ELSE /\ r.out = <<Answer(q, OptsText(opts), new.downenc)>>
                 /\ new.downenc = IF enc = "" THEN usr.downenc ELSE enc
                 /\ new.lazy = IF lazy = "" THEN usr.lazy ELSE lazy = "L"
                 /\ new.down_compression =
                      IF comp = "" THEN usr.down_compression ELSE comp = "C"
                 /\ enc # "" =>
                      /\ new.downenc_bits = DownBits(enc)
                      /\ new.outgoing.maxfraglen =
                           ToUnsigned(((DownBits(enc) * usr.fragsize) \div 8)
                                      - DOWNSTREAM_PING_HDR)

\* tunnel_dns has just echoed an O request of three options, which named two
\* downstream encodings and switched compression off: the later encoding is
\* in force
C30_Witness ==
  /\ pc = "max_wait"
  /\ Len(out) = 1
  /\ out[1].data.txt = "OPTS"
  /\ out[1].data.len = 3
  /\ out[1].enc = "V"
  /\ LET usr == users[out[1].q.name.uid]
     IN usr.downenc = "V" /\ usr.downenc_bits = 7 /\ ~usr.down_compression

\* C31: an O request from an authenticated user whose option count is not a
\* number in 1..9, or whose name is shorter than the count requires, is
\* answered BADLEN and leaves every user unchanged.
C31_OptionCountBadlen ==
  pc \in {"select", "dns"} =>
    \A q \in Queries(client, now) : \A garbage \in Garbage(q) :
      LET u == q.name.uid
          r == tunnel_dns(users, q, now, check_ip, garbage, 0)
      IN (/\ q.name.cmd = "O"
          /\ check_authenticated_user_and_ip(users, u, q, now, check_ip) = 0
          /\ \/ q.name.b \notin 1 .. 9
             \/ OptsDomainLen(q.name) < q.name.b + 6)
         => /\ r.out = <<Answer(q, Text("BADLEN"), "T")>>
            /\ r.users = users

\* C32: in every reachable state the fragment a user would send next fits the
\* downstream packet buffer together with its header, so a send_data_or_ping
\* call with respond_now = 1 sends exactly one response, saves it to the
\* answer cache and marks one query answered.
C32_RespondNowSendsOne ==
  \A userid \in Users :
    LET u == users[userid]
        frags == u.outgoing.frags
    IN /\ Len(frags) > 0 =>
            Head(frags).len + DOWNSTREAM_PING_HDR
              <= MAX_FRAGSIZE + DOWNSTREAM_PING_HDR
       /\ \A q \in Queries(client, now) : \A ping \in {0, 1} :
            LET r == send_data_or_ping(u, q, ping, 1, 1)
            IN /\ Len(r.out) = 1
               /\ r.u.dnscache_lastfilled # u.dnscache_lastfilled
               /\ SameQuery(r.u.dnscache_q[r.u.dnscache_lastfilled], q)
               /\ r.u.qmem = qmem_answered(u.qmem)

\* C33: whenever an accepted N or O request recomputes outgoing.maxfraglen,
\* fragsize * bits / 8 is greater than DOWNSTREAM_PING_HDR, so the new
\* maxfraglen is at least 1 and is the difference itself, not a wrapped value.
C33_MaxFragLenPositive ==
  pc \in {"select", "dns"} =>
    \A q \in Queries(client, now) : \A garbage \in Garbage(q) :
      LET u == q.name.uid
          r == tunnel_dns(users, q, now, check_ip, garbage, 0)
          new == r.users[u]
      IN (/\ q.name.cmd \in {"N", "O"}
          /\ check_authenticated_user_and_ip(users, u, q, now, check_ip) = 0
          /\ \/ new.outgoing.maxfraglen # users[u].outgoing.maxfraglen
             \/ new.fragsize # users[u].fragsize
             \/ new.downenc_bits # users[u].downenc_bits)
         => /\ (new.fragsize * new.downenc_bits) \div 8 > DOWNSTREAM_PING_HDR
            /\ new.outgoing.maxfraglen >= 1
            /\ new.outgoing.maxfraglen =
                 ((new.fragsize * new.downenc_bits) \div 8)
                   - DOWNSTREAM_PING_HDR

\* C34: after every handled event each allocated user's downenc_bits matches
\* its downenc: 'T' with 5, 'S' and 'U' with 6, 'V' with 7, 'R' with 8.
C34_DownencBitsMatch ==
  \A u \in Users :
    users[u].active => users[u].downenc_bits = DownBits(users[u].downenc)

\* the form in which write_dns puts an answer on the wire: the data as it is
\* for a NULL or PRIVATE query, otherwise led by the character of the
\* downstream encoding it used, base32 unless downenc is S, U, V or R
write_dns(ans) ==
  [q |-> ans.q, data |-> ans.data,
   lead |-> IF ans.q.type \in {"NULL", "PRIVATE"} THEN ""
            ELSE CASE ans.enc = "S" -> "s" [] ans.enc = "U" -> "u"
                   [] ans.enc = "V" -> "v" [] ans.enc = "R" -> "r"
                   [] OTHER -> "t"]

\* V requests the server rejects in user table us: wrong version or no slot
RejectedVersion(us, q, t) ==
  /\ q.name.cmd = "V"
  /\ \/ (IF q.name.b > 4 THEN q.name.a ELSE 0) # PROTOCOL_VERSION
     \/ find_available_user(us, t) < 0

\* the user table with user v having negotiated downstream encoding d instead
Renegotiated(us, v, d) ==
  [us EXCEPT ![v].downenc = d, ![v].downenc_bits = DownBits(d),
             ![v].outgoing.maxfraglen =
                ToUnsigned(((DownBits(d) * us[v].fragsize) \div 8)
                           - DOWNSTREAM_PING_HDR)]

\* C35: the answer to a rejected V request (VNAK or VFUL) does not depend on
\* the session state of any user: the same request gets the same answer on
\* the wire when a user has negotiated another downstream encoding.
C35_RejectedVersionAnswer ==
  pc \in {"select", "dns"} =>
    \A q \in Queries(client, now) :
      LET r == tunnel_dns(users, q, now, check_ip, -1, 0)
      IN RejectedVersion(users, q, now)
         => /\ Len(r.out) = 1
            /\ r.out[1].data.txt \in {"VNAK", "VFUL"}
            /\ \A v \in Users : \A d \in {"T", "S", "U", "V", "R"} :
                 LET r0 == tunnel_dns(Renegotiated(users, v, d), q, now,
                                      check_ip, -1, 0)
                 IN users[v].active
                    => /\ Len(r0.out) = 1
                       /\ write_dns(r.out[1]) = write_dns(r0.out[1])

\* total length of a sequence of fragments
RECURSIVE FragsLen(_)
FragsLen(frags) ==
  IF frags = <<>> THEN 0 ELSE Head(frags).len + FragsLen(Tail(frags))

\* what a user_send_data call made for user v: the bytes, length and
\* compressed flag it sent raw (messages o) or appended to the user's outgoing
\* window (old before the call, new after it)
Delivered(old, new, o, v) ==
  {[data |-> o[i].bytes, len |-> o[i].data.len, comp |-> o[i].data.comp] :
     i \in {k \in 1 .. Len(o) : /\ o[k].kind = "raw" /\ o[k].q.id = v
                                /\ o[k].data.txt = "pkt"}}
  \cup
  {[data |-> new.frags[i].data,
    len |-> FragsLen(SubSeq(new.frags, Len(old.frags) + 1, Len(new.frags))),
    comp |-> new.frags[i].comp] :
     i \in (Len(old.frags) + 1) .. Len(new.frags)}

\* C36: the payload user_send_data queues in the target's outgoing window or
\* sends raw, when called from tunnel_tun or handle_full_packet, is the source
\* IP packet in the form the target negotiated: the deflated bytes with their
\* length, flagged compressed, when the target's down_compression is on; the
\* packet itself with its own length, flagged uncompressed, when it is off.
C36_PayloadAsNegotiated ==
  /\ pc = "select" =>
       \A p \in TunPkts(client) :
         LET to == find_user_by_ip(users, p.dst, now)
             r == tunnel_tun(users, p, now)
         IN to >= 0 =>
              \A d \in Delivered(users[to].outgoing, r.users[to].outgoing,
                                 r.out, to) :
                d = IF users[to].down_compression
                    THEN [data |-> "deflated", len |-> p.z, comp |-> 1]
                    ELSE [data |-> "packet", len |-> p.raw, comp |-> 0]
  /\ pc \in {"select", "dns"} =>
       \A q \in Queries(client, now) : \A garbage \in Garbage(q) :
         LET p == FullPacket(users, q, now, check_ip)
             r == handle_full_packet(users, q.name.uid, p,
                                     IF q.type = "RAW" THEN 1 ELSE 0,
                                     garbage, now)
         IN p # NoPkt =>
              \A v \in Users :
                \A d \in Delivered(users[v].outgoing, r.users[v].outgoing,
                                   r.out, v) :
                  d = IF users[v].down_compression
                      THEN [data |-> "deflated", len |-> p.z, comp |-> 1]
                      ELSE [data |-> "packet", len |-> p.raw, comp |-> 0]

\* a packet has just been sent raw, uncompressed, to a user that turned
\* down_compression off
C36_Witness ==
  /\ \E i \in 1 .. Len(out) :
       /\ out[i].kind = "raw"
       /\ out[i].data.txt = "pkt"
       /\ out[i].bytes = "packet"
       /\ ~users[out[i].q.id].down_compression

\* C37: a P or data query with DNS id 0 is dropped with no answer and no
\* state change, so every query in a user's qmem pending range and every
\* query saved with an answer in a user's answer cache has a non-zero id: the
\* id 0 that marks an empty cache slot never hides a saved answer.
C37_IdZeroDropped ==
  /\ pc \in {"select", "dns"} =>
       \A q \in Queries(client, now) : \A garbage \in Garbage(q) :
         LET r == tunnel_dns(users, q, now, check_ip, garbage, 0)
         IN (q.name.cmd \in {"P", "D"} /\ q.id = 0)
            => r.out = <<>> /\ r.users = users
  /\ \A u \in Users :
       /\ \A s \in PendingSlots(users[u].qmem) :
            users[u].qmem.queries[s].id # 0
       /\ \A k \in 0 .. (DNSCACHE_LEN - 1) :
            users[u].dnscache_answerlen[k] > 0 => users[u].dnscache_q[k].id # 0

\* a user holds a pending query and a saved answer while its client also
\* sends P and data queries with id 0
C37_Witness ==
  /\ \E q \in Queries(client, now) : q.name.cmd \in {"P", "D"} /\ q.id = 0
  /\ \E u \in Users :
       /\ users[u].qmem.num_pending > 0
       /\ \E k \in 0 .. (DNSCACHE_LEN - 1) : users[u].dnscache_answerlen[k] > 0

====
